---- MODULE Spec2Model ----
(***************************************************************************)
(* A model of the tech_world_bot agent (Clawd): grid pathfinding           *)
(* (pathfinding.ts), the wandering loop (agent-loop.ts) and the            *)
(* orchestration of wandering, help-request and proactive-approach flows   *)
(* (index.ts).                                                             *)
(*                                                                         *)
(* Scheduling follows the Node.js event loop: one action is one            *)
(* synchronous segment of a handler or of an async function, from the      *)
(* event that resumes it to its next await.  Continuations of promises     *)
(* resolved by an abort() are microtasks: they are queued in mq and run,   *)
(* in order, before any other event is handled.                            *)
(*                                                                         *)
(* Costs are in thousandths (1.0 -> 1000, 1.414 -> 1414), so sums are      *)
(* exact where the source adds doubles.                                    *)
(***************************************************************************)
EXTENDS Integers, Sequences, FiniteSets, TLC

\* ------------------------------------------------------------- bounds
\* Help-request events handled, and proactive-approach flows started, in one
\* behaviour of Spec (every event and every timer of the program).
MaxHelp == 1
MaxProactive == 1
\* The same in SpecFlows (the flows, while no timer of a wander task fires).
DeepHelp == 2
DeepProactive == 2
\* The side of the largest grid on which findPath is examined on its own.
MaxGridSize == 3
\* The longest path on which pathToDirections is examined on its own.
MaxCells == 3
\* The chat messages received, and those whose handlers overlap.
MaxChat == 11
MaxChatPending == 2

\* ------------------------------------------------- program constants
STEP_DURATION_MS == 200
MAX_PATH_LENGTH == 20
CARDINAL_COST == 1000
DIAGONAL_COST == 1414
DEFAULT_CELL_SIZE == 32
MAX_HISTORY == 20
DEFAULT_SPAWN == [x |-> 25, y |-> 25]

Infinity == 1000000000

\* --------------------------------------------------- pathfinding.ts
Cell(x, y) == [x |-> x, y |-> y]

\* key(c): the source's "x,y" string, here the pair <<x, y>>.
key(c) == <<c.x, c.y>>

NEIGHBOURS ==
  << [dx |-> 0,  dy |-> -1, name |-> "up"],
     [dx |-> 0,  dy |-> 1,  name |-> "down"],
     [dx |-> -1, dy |-> 0,  name |-> "left"],
     [dx |-> 1,  dy |-> 0,  name |-> "right"],
     [dx |-> -1, dy |-> -1, name |-> "upLeft"],
     [dx |-> 1,  dy |-> -1, name |-> "upRight"],
     [dx |-> -1, dy |-> 1,  name |-> "downLeft"],
     [dx |-> 1,  dy |-> 1,  name |-> "downRight"] >>

Abs(n) == IF n < 0 THEN -n ELSE n
Max(a, b) == IF a > b THEN a ELSE b
Sign(n) == IF n > 0 THEN 1 ELSE IF n < 0 THEN -1 ELSE 0

\* Chebyshev distance between two cells.
Cheb(a, b) == Max(Abs(a.x - b.x), Abs(a.y - b.y))

\* buildBarrierSet: the list of [x, y] pairs as a set of keys.
buildBarrierSet(barriers) == { <<b[1], b[2]>> : b \in barriers }

\* Map.get(k) ?? Infinity
GetOr(m, k) == IF k \in DOMAIN m THEN m[k] ELSE Infinity

\* A scan in which an equal later key replaces an earlier one.
RECURSIVE LowestFLatest(_, _, _, _, _)
LowestFLatest(open, fScore, i, bestKey, lowestF) ==
  IF i > Len(open) THEN bestKey
  ELSE LET f == GetOr(fScore, open[i])
       IN IF f <= lowestF
          THEN LowestFLatest(open, fScore, i + 1, open[i], f)
          ELSE LowestFLatest(open, fScore, i + 1, bestKey, lowestF)

\* The open-set scan: the first key, in insertion order, with the lowest
\* fScore (strict <, so an equal later key never replaces an earlier one).
RECURSIVE LowestF(_, _, _, _, _)
LowestF(open, fScore, i, bestKey, lowestF) ==
  IF i > Len(open) THEN bestKey
  ELSE LET f == GetOr(fScore, open[i])
       IN IF f < lowestF
          THEN LowestF(open, fScore, i + 1, open[i], f)
          ELSE LowestF(open, fScore, i + 1, bestKey, lowestF)

\* Set.delete(k) on an insertion-ordered set.
SeqDelete(s, k) == SelectSeq(s, LAMBDA e : e # k)

\* Set.add(k): appended when absent, left in place when present.
SeqAdd(s, k) == IF \E i \in 1..Len(s) : s[i] = k THEN s ELSE Append(s, k)

\* Following cameFrom from the goal back to the start; the result is in
\* start-to-goal order (the source pushes, then reverses).
RECURSIVE Reconstruct(_, _, _)
Reconstruct(cameFrom, traceKey, acc) ==
  LET path == <<Cell(traceKey[1], traceKey[2])>> \o acc
  IN IF traceKey \in DOMAIN cameFrom
     THEN Reconstruct(cameFrom, cameFrom[traceKey], path)
     ELSE path

\* A relaxation without the barrier test.
RelaxIntoBarriers(st, current, currentKey, currentG, n, goal, barrierSet, gridSize) ==
  LET nx == current.x + n.dx
      ny == current.y + n.dy
      nKey == <<nx, ny>>
      diagonal == n.dx # 0 /\ n.dy # 0
      moveCost == IF diagonal THEN DIAGONAL_COST ELSE CARDINAL_COST
      tentativeG == currentG + moveCost
  IN IF nx < 0 \/ nx >= gridSize \/ ny < 0 \/ ny >= gridSize THEN st
     ELSE IF diagonal /\ (<<current.x + n.dx, current.y>> \in barrierSet
                          \/ <<current.x, current.y + n.dy>> \in barrierSet)
     THEN st
     ELSE IF tentativeG < GetOr(st.gScore, nKey)
     THEN [ openSet  |-> SeqAdd(st.openSet, nKey),
            gScore   |-> (nKey :> tentativeG) @@ st.gScore,
            fScore   |-> (nKey :> (tentativeG
                                    + CARDINAL_COST * Cheb(Cell(nx, ny), goal)))
                         @@ st.fScore,
            cameFrom |-> (nKey :> currentKey) @@ st.cameFrom ]
     ELSE st

\* A relaxation without the corner-cut test.
RelaxCuttingCorners(st, current, currentKey, currentG, n, goal, barrierSet, gridSize) ==
  LET nx == current.x + n.dx
      ny == current.y + n.dy
      nKey == <<nx, ny>>
      diagonal == n.dx # 0 /\ n.dy # 0
      moveCost == IF diagonal THEN DIAGONAL_COST ELSE CARDINAL_COST
      tentativeG == currentG + moveCost
  IN IF nx < 0 \/ nx >= gridSize \/ ny < 0 \/ ny >= gridSize THEN st
     ELSE IF nKey \in barrierSet THEN st
     ELSE IF tentativeG < GetOr(st.gScore, nKey)
     THEN [ openSet  |-> SeqAdd(st.openSet, nKey),
            gScore   |-> (nKey :> tentativeG) @@ st.gScore,
            fScore   |-> (nKey :> (tentativeG
                                    + CARDINAL_COST * Cheb(Cell(nx, ny), goal)))
                         @@ st.fScore,
            cameFrom |-> (nKey :> currentKey) @@ st.cameFrom ]
     ELSE st

\* A relaxation that rejects a diagonal only when both cells beside it are
\* barriers.
RelaxCuttingOneCorner(st, current, currentKey, currentG, n, goal, barrierSet, gridSize) ==
  LET nx == current.x + n.dx
      ny == current.y + n.dy
      nKey == <<nx, ny>>
      diagonal == n.dx # 0 /\ n.dy # 0
      moveCost == IF diagonal THEN DIAGONAL_COST ELSE CARDINAL_COST
      tentativeG == currentG + moveCost
  IN IF nx < 0 \/ nx >= gridSize \/ ny < 0 \/ ny >= gridSize THEN st
     ELSE IF nKey \in barrierSet THEN st
     ELSE IF diagonal /\ (<<current.x + n.dx, current.y>> \in barrierSet
                          /\ <<current.x, current.y + n.dy>> \in barrierSet)
     THEN st
     ELSE IF tentativeG < GetOr(st.gScore, nKey)
     THEN [ openSet  |-> SeqAdd(st.openSet, nKey),
            gScore   |-> (nKey :> tentativeG) @@ st.gScore,
            fScore   |-> (nKey :> (tentativeG
                                    + CARDINAL_COST * Cheb(Cell(nx, ny), goal)))
                         @@ st.fScore,
            cameFrom |-> (nKey :> currentKey) @@ st.cameFrom ]
     ELSE st

\* A relaxation whose bounds test also rejects column 0 and row 0.
RelaxOffByOne(st, current, currentKey, currentG, n, goal, barrierSet, gridSize) ==
  LET nx == current.x + n.dx
      ny == current.y + n.dy
      nKey == <<nx, ny>>
      diagonal == n.dx # 0 /\ n.dy # 0
      moveCost == IF diagonal THEN DIAGONAL_COST ELSE CARDINAL_COST
      tentativeG == currentG + moveCost
  IN IF nx <= 0 \/ nx >= gridSize \/ ny <= 0 \/ ny >= gridSize THEN st
     ELSE IF nKey \in barrierSet THEN st
     ELSE IF diagonal /\ (<<current.x + n.dx, current.y>> \in barrierSet
                          \/ <<current.x, current.y + n.dy>> \in barrierSet)
     THEN st
     ELSE IF tentativeG < GetOr(st.gScore, nKey)
     THEN [ openSet  |-> SeqAdd(st.openSet, nKey),
            gScore   |-> (nKey :> tentativeG) @@ st.gScore,
            fScore   |-> (nKey :> (tentativeG
                                    + CARDINAL_COST * Cheb(Cell(nx, ny), goal)))
                         @@ st.fScore,
            cameFrom |-> (nKey :> currentKey) @@ st.cameFrom ]
     ELSE st

\* A relaxation with the two move costs the wrong way round.
RelaxSwappedCosts(st, current, currentKey, currentG, n, goal, barrierSet, gridSize) ==
  LET nx == current.x + n.dx
      ny == current.y + n.dy
      nKey == <<nx, ny>>
      diagonal == n.dx # 0 /\ n.dy # 0
      moveCost == IF diagonal THEN CARDINAL_COST ELSE DIAGONAL_COST
      tentativeG == currentG + moveCost
  IN IF nx < 0 \/ nx >= gridSize \/ ny < 0 \/ ny >= gridSize THEN st
     ELSE IF nKey \in barrierSet THEN st
     ELSE IF diagonal /\ (<<current.x + n.dx, current.y>> \in barrierSet
                          \/ <<current.x, current.y + n.dy>> \in barrierSet)
     THEN st
     ELSE IF tentativeG < GetOr(st.gScore, nKey)
     THEN [ openSet  |-> SeqAdd(st.openSet, nKey),
            gScore   |-> (nKey :> tentativeG) @@ st.gScore,
            fScore   |-> (nKey :> (tentativeG
                                    + CARDINAL_COST * Cheb(Cell(nx, ny), goal)))
                         @@ st.fScore,
            cameFrom |-> (nKey :> currentKey) @@ st.cameFrom ]
     ELSE st

\* One neighbour of the current cell: bounds, barrier, corner-cut, relax.
Relax(st, current, currentKey, currentG, n, goal, barrierSet, gridSize) ==
  LET nx == current.x + n.dx
      ny == current.y + n.dy
      nKey == <<nx, ny>>
      diagonal == n.dx # 0 /\ n.dy # 0
      moveCost == IF diagonal THEN DIAGONAL_COST ELSE CARDINAL_COST
      tentativeG == currentG + moveCost
  IN IF nx < 0 \/ nx >= gridSize \/ ny < 0 \/ ny >= gridSize THEN st
     ELSE IF nKey \in barrierSet THEN st
     ELSE IF diagonal /\ (<<current.x + n.dx, current.y>> \in barrierSet
                          \/ <<current.x, current.y + n.dy>> \in barrierSet)
     THEN st
     ELSE IF tentativeG < GetOr(st.gScore, nKey)
     THEN [ openSet  |-> SeqAdd(st.openSet, nKey),
            gScore   |-> (nKey :> tentativeG) @@ st.gScore,
            fScore   |-> (nKey :> (tentativeG
                                    + CARDINAL_COST * Cheb(Cell(nx, ny), goal)))
                         @@ st.fScore,
            cameFrom |-> (nKey :> currentKey) @@ st.cameFrom ]
     ELSE st

RECURSIVE Expand(_, _, _, _, _, _, _, _)
Expand(st, current, currentKey, currentG, i, goal, barrierSet, gridSize) ==
  IF i > Len(NEIGHBOURS) THEN st
  ELSE Expand(Relax(st, current, currentKey, currentG, NEIGHBOURS[i],
                    goal, barrierSet, gridSize),
              current, currentKey, currentG, i + 1, goal, barrierSet, gridSize)

RECURSIVE AStar(_, _, _, _)
AStar(st, goal, barrierSet, gridSize) ==
  IF Len(st.openSet) = 0 THEN <<>>
  ELSE LET currentKey == LowestF(st.openSet, st.fScore, 1, <<>>, Infinity)
       IN IF currentKey = key(goal)
          THEN Reconstruct(st.cameFrom, key(goal), <<>>)
          ELSE LET current == Cell(currentKey[1], currentKey[2])
                   opened == [st EXCEPT !.openSet = SeqDelete(@, currentKey)]
               IN AStar(Expand(opened, current, currentKey,
                               st.gScore[currentKey], 1,
                               goal, barrierSet, gridSize),
                        goal, barrierSet, gridSize)

\* A search to which the goal is never a barrier.
findPathToBarrier(start, goal, barrierSet, gridSize) ==
  IF key(start) = key(goal) THEN <<start>>
  ELSE AStar([ openSet  |-> <<key(start)>>,
               gScore   |-> (key(start) :> 0),
               fScore   |-> (key(start) :> CARDINAL_COST * Cheb(start, goal)),
               cameFrom |-> << >> ],
             goal, barrierSet \ {key(goal)}, gridSize)

\* The two early returns in the other order.
findPathBarrierFirst(start, goal, barrierSet, gridSize) ==
  IF key(goal) \in barrierSet THEN <<>>
  ELSE IF key(start) = key(goal) THEN <<start>>
  ELSE AStar([ openSet  |-> <<key(start)>>,
               gScore   |-> (key(start) :> 0),
               fScore   |-> (key(start) :> CARDINAL_COST * Cheb(start, goal)),
               cameFrom |-> << >> ],
             goal, barrierSet, gridSize)

findPath(start, goal, barrierSet, gridSize) ==
  IF key(start) = key(goal) THEN <<start>>
  ELSE IF key(goal) \in barrierSet THEN <<>>
  ELSE AStar([ openSet  |-> <<key(start)>>,
               gScore   |-> (key(start) :> 0),
               fScore   |-> (key(start) :> CARDINAL_COST * Cheb(start, goal)),
               cameFrom |-> << >> ],
             goal, barrierSet, gridSize)

\* Direction names for a y axis that points up.
DirectionOfYUp(dx, dy) ==
  IF \E i \in 1..Len(NEIGHBOURS) : NEIGHBOURS[i].dx = dx /\ NEIGHBOURS[i].dy = -dy
  THEN NEIGHBOURS[CHOOSE i \in 1..Len(NEIGHBOURS) :
                    NEIGHBOURS[i].dx = dx /\ NEIGHBOURS[i].dy = -dy].name
  ELSE "none"

DirectionOf(dx, dy) ==
  IF \E i \in 1..Len(NEIGHBOURS) : NEIGHBOURS[i].dx = dx /\ NEIGHBOURS[i].dy = dy
  THEN NEIGHBOURS[CHOOSE i \in 1..Len(NEIGHBOURS) :
                    NEIGHBOURS[i].dx = dx /\ NEIGHBOURS[i].dy = dy].name
  ELSE "none"

\* Directions taken from the first cell of the path instead of the cell
\* before.
pathToDirectionsFromFirst(path) ==
  [ i \in 1..(IF Len(path) = 0 THEN 0 ELSE Len(path) - 1) |->
      DirectionOf(Sign(path[i + 1].x - path[1].x),
                  Sign(path[i + 1].y - path[1].y)) ]

pathToDirections(path) ==
  [ i \in 1..(IF Len(path) = 0 THEN 0 ELSE Len(path) - 1) |->
      DirectionOf(Sign(path[i + 1].x - path[i].x),
                  Sign(path[i + 1].y - path[i].y)) ]

pathToPixels(path, cellSize) ==
  [ i \in 1..Len(path) |-> [x |-> path[i].x * cellSize, y |-> path[i].y * cellSize] ]

\* ------------------------------------------- the position channel
\* gridToPixel (index.ts 116-122).
gridToPixel(c, cellSize) == [x |-> c.x * cellSize, y |-> c.y * cellSize]

\* The payload of publishPath for a path (agent-loop.ts 44-53, with the
\* arguments its callers compute from the path).
publishPathPayload(path, cellSize) ==
  [ points |-> pathToPixels(path, cellSize), directions |-> pathToDirections(path) ]

\* The payload of publishPosition (index.ts 125-135).
publishPositionPayload(position, cellSize) ==
  [ points |-> << gridToPixel(position, cellSize) >>, directions |-> << "none" >> ]

\* ---------------------------------------------------------- the maps
\* The map-info payload the model draws from: an L-shaped corridor in a
\* 12x12 grid, every cell off the corridor a barrier.  The corridor, 23
\* cells long, holds routes of more than MAX_PATH_LENGTH steps.
NoMap == "none"
NoCell == [x |-> -1, y |-> -1]

Grid(gridSize) == { Cell(x, y) : x \in 0..(gridSize - 1), y \in 0..(gridSize - 1) }

\* The top row and the rightmost column.
Corridor(gridSize) == { c \in Grid(gridSize) : c.y = 0 \/ c.x = gridSize - 1 }

MapInfo(mapId, gridSize) ==
  [ mapId      |-> mapId,
    barriers   |-> { <<c.x, c.y>> : c \in Grid(gridSize) \ Corridor(gridSize) },
    spawnPoint |-> Cell(0, 0),
    gridSize   |-> gridSize,
    cellSize   |-> DEFAULT_CELL_SIZE ]

MapLong == MapInfo("long", 12)

\* A map-info message without its barriers: the field is undefined.
Undefined == "undefined"
MapNoBarriers == [ MapInfo("longNoBarriers", 12) EXCEPT !.barriers = Undefined ]

\* typeof barriers === "undefined" for the map of this id.
BarriersMissing(id) == id = MapNoBarriers.mapId

\* A second map: the same corridor shape in a 6x6 grid.  Cells of the long
\* corridor are barriers of it or lie outside it.
MapShort == MapInfo("short", 6)

MapIds == {"long"}
\* The map-info payloads of the behaviours in which the map is replaced.
RemapIds == {"long", "short"}
MapOf(id) ==
  IF id = "longNoBarriers" THEN MapNoBarriers
  ELSE IF id = "short" THEN MapShort
  ELSE MapLong

\* Participants and the terminal each one's payloads carry.  No cell next to
\* the terminal of p1 is walkable; the cell right of the terminal of p2 is.
Players == {"p1", "p2"}
TerminalOf(p) == IF p = "p1" THEN Cell(2, 2) ELSE Cell(10, 11)

\* ------------------------------------------------------------ state
VARIABLES
  world,                  \* WorldState: [map, position]
  wander,                 \* the WanderTask loops started so far, by index
  wanderControllerRef,    \* index of the task whose controller is in the slot
  help,                   \* the help-request flows started so far
  pro,                    \* the proactive-approach flows started so far
  proactiveControllerRef, \* index of the flow whose controller is in the slot, 0 = null
  isBusy,                 \* the single-flight flag
  trackedPlayers,         \* the tracked-session table, in insertion order
  mq,                     \* microtasks queued by abort(): <<kind, index>>
  sleeps,                 \* the abortableSleep calls examined on their own
  inbound,                \* the inbound events examined on their own: the last
                          \* one handled, and each identity's last session event
  search,                 \* the findPath call examined on its own
  directions,             \* the pathToDirections call examined on its own
  chat                    \* the chat handlers and the conversation history

vars == << world, wander, wanderControllerRef, help, pro,
           proactiveControllerRef, isBusy, trackedPlayers, mq, sleeps, inbound, search, directions, chat >>

\* ------------------------------------------------ agent-loop.ts: wander
\* The cells the model lets the draws of Math.random() land on.
SampleCells == { Cell(0, 0), Cell(2, 1), Cell(11, 11) }

\* pickRandomDestination: a drawn cell that passes the three tests, or
\* NoCell (null) when every attempt can draw a cell that fails one.
Accepted(c, current, barrierSet) ==
  /\ ~(c.x = current.x /\ c.y = current.y)
  /\ key(c) \notin barrierSet
  /\ Cheb(c, current) <= MAX_PATH_LENGTH

pickRandomDestination(current, barrierSet, gridSize) ==
  { c \in SampleCells \cap Grid(gridSize) : Accepted(c, current, barrierSet) }
  \cup (IF \E c \in Grid(gridSize) : ~Accepted(c, current, barrierSet)
        THEN {NoCell} ELSE {})

\* Truncate long paths (agent-loop.ts:157).
Truncate(path) ==
  IF Len(path) > MAX_PATH_LENGTH THEN SubSeq(path, 1, MAX_PATH_LENGTH + 1) ELSE path

\* The pcs at which a task is suspended in abortableSleep.
WanderSleeping == {"waitMap", "retrySleep", "publishFailedSleep", "walking", "pausing"}

\* findPath is a function of the map, the start and the goal: its values on
\* the positions the bot can hold and the goals it can pick, computed once.
PathStarts == {DEFAULT_SPAWN} \cup Corridor(MapLong.gridSize)
PathGoals == SampleCells \cup Corridor(MapLong.gridSize)
PathTable ==
  [ m \in RemapIds |-> [ s \in PathStarts |-> [ g \in PathGoals |->
      findPath(s, g, buildBarrierSet(MapOf(m).barriers), MapOf(m).gridSize) ] ] ]

\* A sleep without the test of line 90: the listener, added after the abort,
\* never runs and the timer completes.
SleepWithoutAbortTest(signal) == FALSE

\* abortableSleep(ms, signal) called with the signal already aborted resolves
\* false at once (agent-loop.ts:90): the caller goes on in the same step.
AbortedAtSleep(signal) == signal.aborted

WanderTask(pc, aborted, map, dest, path) ==
  [pc |-> pc, aborted |-> aborted, map |-> map, dest |-> dest, path |-> path]

\* One run of the body of `while (!signal.aborted)` up to its await, for
\* the destination picked.
IterationFor(mapId, position, dest) ==
  LET map == MapOf(mapId)
      barrierSet == buildBarrierSet(map.barriers)
      path == PathTable[mapId][position][dest]
  IN IF dest = NoCell THEN WanderTask("retrySleep", FALSE, mapId, NoCell, <<>>)
     ELSE IF Len(path) < 2 THEN WanderTask("retrySleep", FALSE, mapId, NoCell, <<>>)
     ELSE WanderTask("publishing", FALSE, mapId, dest, Truncate(path))

Iterations(mapId, position) ==
  { IterationFor(mapId, position, dest) :
      dest \in pickRandomDestination(position,
                                     buildBarrierSet(MapOf(mapId).barriers),
                                     MapOf(mapId).gridSize) }

\* buildBarrierSet throws on a map without barriers (agent-loop.ts 126):
\* loop() rejects, the rejection is logged (198) and the task is over, its
\* token not cancelled.
CrashedTask == WanderTask("done", FALSE, NoMap, NoCell, <<>>)

\* loop() from its start (or from the map-wait sleep) up to its first await.
LoopStart(w) ==
  IF w.map = NoMap
  THEN { WanderTask("waitMap", FALSE, NoMap, NoCell, <<>>) }
  ELSE IF BarriersMissing(w.map)
  THEN { CrashedTask }
  ELSE Iterations(w.map, w.position)

\* A returned task whose controller is no longer in the slot is forgotten:
\* its index is free for the next task.  A returned task stays as "done"
\* while the slot holds its controller.
FreeTask == WanderTask("free", FALSE, NoMap, NoCell, <<>>)
DoneTask == WanderTask("done", TRUE, NoMap, NoCell, <<>>)

Alloc(tasks) ==
  IF \E i \in 1..Len(tasks) : tasks[i].pc = "free"
  THEN CHOOSE i \in 1..Len(tasks) :
         tasks[i].pc = "free" /\ \A k \in 1..(i - 1) : tasks[k].pc # "free"
  ELSE Len(tasks) + 1

Put(tasks, i, t) == IF i <= Len(tasks) THEN [tasks EXCEPT ![i] = t] ELSE Append(tasks, t)

\* startWandering(ctx, world): the tasks after the call, for each outcome of
\* the new loop's run to its first await.  The new task is index Alloc(tasks).
startWandering(w, tasks) == { Put(tasks, Alloc(tasks), t) : t \in LoopStart(w) }

\* The loop of task i returns (its token is aborted).
Returned(i) == IF i = wanderControllerRef THEN DoneTask ELSE FreeTask

\* controller.abort() on wander task i: the flag, and the wake-up of a
\* pending abortableSleep as a microtask.
AbortNothing(tasks, i) == tasks

\* An abort that wakes no sleeper.
AbortWakesNothing(tasks, q, i) == q

AbortWanderTasks(tasks, i) == [tasks EXCEPT ![i].aborted = TRUE]

AbortWanderQueue(tasks, q, i) ==
  IF ~tasks[i].aborted /\ tasks[i].pc \in WanderSleeping
  THEN Append(q, <<"wander", i>>) ELSE q

UNCHANGED_flows == UNCHANGED << help, pro, proactiveControllerRef, isBusy, trackedPlayers >>

\* Every timer and every settled promise is a task of the event loop, run
\* when no microtask is pending (mq = <<>>).  The timer of an abortableSleep
\* whose signal was aborted during the sleep is cleared by the abort listener,
\* whose wake-up is in mq from the abort on until it has run.

\* The 1 s poll of the map-wait loop fires and a map is there.
WanderMapArrived(i) ==
  /\ mq = <<>>
  /\ wander[i].pc = "waitMap"
  /\ world.map # NoMap
  /\ \E t \in LoopStart(world) : wander' = [wander EXCEPT ![i] = t]
  /\ UNCHANGED << world, wanderControllerRef, mq >> /\ UNCHANGED_flows

\* A retry sleep, the sleep after a failed publish or the pause between
\* walks elapses: next iteration.
WanderSleepElapsed(i) ==
  /\ mq = <<>>
  /\ wander[i].pc \in {"retrySleep", "publishFailedSleep", "pausing"}
  /\ \E t \in Iterations(wander[i].map, world.position) :
       wander' = [wander EXCEPT ![i] = t]
  /\ UNCHANGED << world, wanderControllerRef, mq >> /\ UNCHANGED_flows

\* A failed publish that ends the loop.
PublishFailureEndsLoop(t) == DoneTask

\* The catch of the publish (agent-loop.ts 173-177): sleep 2 s, continue.
PublishFailed(t) == WanderTask("publishFailedSleep", FALSE, t.map, NoCell, <<>>)

\* publishPath resolves (ok) or rejects (~ok).
WanderPublishReturns(i, ok) ==
  /\ mq = <<>>
  /\ wander[i].pc = "publishing"
  /\ wander' = [wander EXCEPT ![i] =
       IF AbortedAtSleep(wander[i]) THEN Returned(i)
       ELSE IF ok THEN [@ EXCEPT !.pc = "walking"]
       ELSE PublishFailed(@)]
  /\ UNCHANGED << world, wanderControllerRef, mq >> /\ UNCHANGED_flows

\* A commit of the destination picked instead of the end of the path.
CommitDestination(t) == t.dest

\* The walk-duration sleep completes: commit the end of the path, pause.
WanderCommit(t) == t.path[Len(t.path)]

WanderWalkCompleted(i) ==
  /\ mq = <<>>
  /\ wander[i].pc = "walking"
  /\ world' = [world EXCEPT !.position = WanderCommit(wander[i])]
  /\ wander' = [wander EXCEPT ![i] = WanderTask("pausing", FALSE, @.map, NoCell, <<>>)]
  /\ UNCHANGED << wanderControllerRef, mq >> /\ UNCHANGED_flows

\* A loop that does not test the result of its walk sleep: the aborted
\* sleep is followed by the commit, and the loop ends at its next test.
WanderAbortedCommits(i) ==
  /\ wander' = [wander EXCEPT ![i] = Returned(i)]
  /\ world' = IF wander[i].pc = "walking"
              THEN [world EXCEPT !.position = WanderCommit(wander[i])]
              ELSE world
  /\ UNCHANGED wanderControllerRef /\ UNCHANGED_flows

\* The microtask of an aborted abortableSleep in a wander task: the loop ends.
WanderAborted(i) ==
  /\ wander' = [wander EXCEPT ![i] = Returned(i)]
  /\ UNCHANGED << world, wanderControllerRef >> /\ UNCHANGED_flows

\* --------------------------------------------- the tracked-session table
Session(playerId) ==
  [ playerId |-> playerId, stuck |-> FALSE,
    proactiveOffered |-> FALSE, helpRequestActive |-> FALSE ]

Has(tp, id) == \E k \in 1..Len(tp) : tp[k].playerId = id
IndexOf(tp, id) == CHOOSE k \in 1..Len(tp) : tp[k].playerId = id

\* A delete that removes nothing.
TableKeep(tp, id) == tp

\* Map.set: a present key keeps its place, a new key goes last.
TableSet(tp, s) ==
  IF Has(tp, s.playerId) THEN [tp EXCEPT ![IndexOf(tp, s.playerId)] = s]
  ELSE Append(tp, s)

TableDelete(tp, id) == SelectSeq(tp, LAMBDA s : s.playerId # id)

\* The flows that hold the session object of `id` lose it when the table
\* entry is replaced or deleted: their writes no longer reach the table.
Detach(flows, id) ==
  [ j \in 1..Len(flows) |->
      IF flows[j].player = id THEN [flows[j] EXCEPT !.playerInTable = FALSE]
      ELSE flows[j] ]

\* player.proactiveOffered = true, on the object the flow holds.
MarkOffered(tp, flow) ==
  IF flow.playerInTable /\ Has(tp, flow.player)
  THEN [tp EXCEPT ![IndexOf(tp, flow.player)].proactiveOffered = TRUE]
  ELSE tp

\* --------------------------------------------------- findAdjacentCell
RECURSIVE AdjacentFrom(_, _, _, _)
AdjacentFrom(target, barrierSet, gridSize, i) ==
  IF i > Len(NEIGHBOURS) THEN NoCell
  ELSE LET nx == target.x + NEIGHBOURS[i].dx
           ny == target.y + NEIGHBOURS[i].dy
       IN IF /\ nx >= 0 /\ nx < gridSize /\ ny >= 0 /\ ny < gridSize
             /\ <<nx, ny>> \notin barrierSet
          THEN Cell(nx, ny)
          ELSE AdjacentFrom(target, barrierSet, gridSize, i + 1)

findAdjacentCell(target, barrierSet, gridSize) ==
  AdjacentFrom(target, barrierSet, gridSize, 1)

\* The walk both approach flows plan: the path to publish, or <<>> when
\* there is no target cell, the bot is already adjacent, or no path of at
\* least 2 cells exists.
ApproachPath(w, terminal) ==
  LET map == MapOf(w.map)
      barrierSet == buildBarrierSet(map.barriers)
      targetCell == findAdjacentCell(terminal, barrierSet, map.gridSize)
      alreadyAdjacent == Cheb(w.position, terminal) <= 1
  IN IF targetCell = NoCell \/ alreadyAdjacent THEN <<>>
     ELSE LET path == PathTable[w.map][w.position][targetCell] IN
          IF Len(path) >= 2 THEN path ELSE <<>>

\* wanderControllerRef.current = startWandering(ctx, world), on the tasks
\* `tasks` and the world `w` of the step.
RestartWandering(w, tasks) ==
  \E ts \in startWandering(w, tasks) :
    /\ wander' = IF tasks[wanderControllerRef].pc = "done"
                 THEN [ts EXCEPT ![wanderControllerRef] = FreeTask]
                 ELSE ts
    /\ wanderControllerRef' = Alloc(tasks)

\* ------------------------------------------------ index.ts: help-request
\* hint is what callClaudeForHint has returned ("pending" before it does);
\* genFailed records that the generation call inside it threw.
HelpFlow(pc, sender, hint, path, pathPublished) ==
  [ pc |-> pc, sender |-> sender, hint |-> hint, genFailed |-> FALSE,
    path |-> path, pathPublished |-> pathPublished ]

HelpInProgress(h) == h.pc \notin {"done", "failed"}

\* A flow that has ended keeps only how it ended.
HelpEnded(pc) == HelpFlow(pc, "", "none", <<>>, FALSE)

\* A handler that has no branch for a missing map: it walks from the
\* position it has to the terminal of the sender.
handleHelpRequestEntryWalks(w, sender) ==
  HelpFlow("publishing", sender, "pending",
           << w.position, TerminalOf(sender) >>, FALSE)

\* handleHelpRequest from its entry to its first await, after the wander
\* token is aborted.  On a map without barriers buildBarrierSet throws
\* (index.ts 289): the flow is over, and the finally of the handler clears
\* isBusy before any other task runs.
handleHelpRequestEntry(w, sender) ==
  IF w.map = NoMap THEN HelpFlow("nomapGen", sender, "pending", <<>>, FALSE)
  ELSE IF BarriersMissing(w.map) THEN HelpEnded("failed")
  ELSE LET path == ApproachPath(w, TerminalOf(sender))
       IN IF Len(path) >= 2
          THEN HelpFlow("publishing", sender, "pending", path, FALSE)
          ELSE HelpFlow("awaitHint", sender, "pending", <<>>, FALSE)

ProSleeping == {"walking", "linger"}

\* DataReceived, topic help-request (index.ts:705-732).
HelpRequestReceived(sender, maxHelp) ==
  /\ mq = <<>>
  /\ Len(help) < maxHelp
  /\ trackedPlayers' =
       IF Has(trackedPlayers, sender)
       THEN [trackedPlayers EXCEPT ![IndexOf(trackedPlayers, sender)].helpRequestActive = TRUE]
       ELSE trackedPlayers
  /\ LET ref == proactiveControllerRef
         q1 == IF ref # 0 /\ ~pro[ref].aborted /\ pro[ref].pc \in ProSleeping
               THEN Append(mq, <<"pro", ref>>) ELSE mq
     IN /\ pro' = IF ref # 0 THEN [pro EXCEPT ![ref].aborted = TRUE] ELSE pro
        /\ mq' = AbortWanderQueue(wander, q1, wanderControllerRef)
  /\ proactiveControllerRef' = 0
  /\ isBusy' = HelpInProgress(handleHelpRequestEntry(world, sender))
  /\ wander' = AbortWanderTasks(wander, wanderControllerRef)
  /\ help' = Append(help, handleHelpRequestEntry(world, sender))
  /\ UNCHANGED << world, wanderControllerRef >>

\* publishPath of the help flow resolves or rejects; the rejection is
\* caught, and the walk wait starts either way.
HelpPathPublishReturns(h, ok) ==
  /\ mq = <<>>
  /\ help[h].pc = "publishing"
  /\ help' = [help EXCEPT ![h].pc = "walking", ![h].pathPublished = ok]
  /\ UNCHANGED << world, wander, wanderControllerRef, pro,
                  proactiveControllerRef, isBusy, trackedPlayers, mq >>

\* The walk timer (a plain setTimeout) fires: commit, then await the hint.
HelpWalkElapsed(h) ==
  /\ mq = <<>>
  /\ help[h].pc = "walking"
  /\ world' = [world EXCEPT !.position = help[h].path[Len(help[h].path)]]
  /\ help' = [help EXCEPT ![h].pc =
                IF help[h].hint = "pending" THEN "awaitHint" ELSE "pubHint",
                          ![h].path = <<>>, ![h].pathPublished = FALSE]
  /\ UNCHANGED << wander, wanderControllerRef, pro,
                  proactiveControllerRef, isBusy, trackedPlayers, mq >>

\* callClaudeForHint without its catch: a failure yields no hint.
callClaudeForHintUncaught(ok) == IF ok THEN "text" ELSE "none"

\* callClaudeForHint: the generation call returns text (ok) or fails and
\* the catch returns the fallback.
callClaudeForHint(ok) == IF ok THEN "text" ELSE "fallback"

\* A hint that is published as soon as it arrives, walk or no walk.
HelpHintSkipsWalk(h, ok) ==
  /\ mq = <<>>
  /\ help[h].hint = "pending"
  /\ help[h].pc \in {"publishing", "walking", "awaitHint", "nomapGen"}
  /\ help' = [help EXCEPT ![h].hint = callClaudeForHint(ok),
                          ![h].genFailed = ~ok,
                          ![h].pc = IF @ = "nomapGen" THEN "nomapPub" ELSE "pubHint"]
  /\ UNCHANGED << world, wander, wanderControllerRef, pro,
                  proactiveControllerRef, isBusy, trackedPlayers, mq >>

HelpHintReturns(h, ok) ==
  /\ mq = <<>>
  /\ help[h].hint = "pending"
  /\ help[h].pc \in {"publishing", "walking", "awaitHint", "nomapGen"}
  /\ help' = [help EXCEPT ![h].hint = callClaudeForHint(ok),
                          ![h].genFailed = ~ok,
                          ![h].pc = IF @ = "awaitHint" THEN "pubHint"
                                    ELSE IF @ = "nomapGen" THEN "nomapPub"
                                    ELSE @]
  /\ UNCHANGED << world, wander, wanderControllerRef, pro,
                  proactiveControllerRef, isBusy, trackedPlayers, mq >>

\* The publish of the help-response resolves (ok) or throws (~ok).
\* index.ts:354 (then the linger) and sendHint, index.ts:411 (then line 285).
HelpAfterResponse(h, ok) ==
  IF ~ok THEN "failed"
  ELSE IF help[h].pc = "pubHint" THEN "linger" ELSE "done"

HelpResponsePublishReturns(h, ok) ==
  /\ mq = <<>>
  /\ help[h].pc \in {"pubHint", "nomapPub"}
  /\ help' = [help EXCEPT ![h] = IF HelpAfterResponse(h, ok) = "linger"
                                  THEN [@ EXCEPT !.pc = "linger"]
                                  ELSE HelpEnded(HelpAfterResponse(h, ok))]
  /\ IF HelpAfterResponse(h, ok) = "done"
     THEN RestartWandering(world, wander)
     ELSE UNCHANGED << wander, wanderControllerRef >>
  /\ isBusy' = IF HelpAfterResponse(h, ok) = "linger" THEN isBusy ELSE FALSE
  /\ UNCHANGED << world, pro, proactiveControllerRef, trackedPlayers, mq >>

\* The 10 s linger elapses: resume wandering; finally clears the flag.
HelpLingerElapsed(h) ==
  /\ mq = <<>>
  /\ help[h].pc = "linger"
  /\ help' = [help EXCEPT ![h] = HelpEnded("done")]
  /\ RestartWandering(world, wander)
  /\ isBusy' = FALSE
  /\ UNCHANGED << world, pro, proactiveControllerRef, trackedPlayers, mq >>

\* ------------------------------------------- index.ts: proactive approach
\* nudge is the text of the nudge the flow has handed to publishData
\* ("none" before it does); genFailed records that the generation call threw.
ProFlow(pc, player, aborted, path, pathPublished) ==
  [ pc |-> pc, player |-> player, playerInTable |-> TRUE, aborted |-> aborted,
    genFailed |-> FALSE, nudge |-> "none",
    path |-> path, pathPublished |-> pathPublished ]

ProInProgress(f) == f.pc # "done"

\* A flow that has returned keeps nothing.
ProEnded == [ pc |-> "done", player |-> "", playerInTable |-> FALSE,
              aborted |-> FALSE, genFailed |-> FALSE, nudge |-> "none",
              path |-> <<>>, pathPublished |-> FALSE ]

\* Every return of handleProactiveApproach: the slot is cleared, wandering
\* restarts, and the callback's finally clears isBusy.
ProExit(j, flows, w) ==
  /\ pro' = [flows EXCEPT ![j] = ProEnded]
  /\ proactiveControllerRef' = 0
  /\ RestartWandering(w, wander)
  /\ isBusy' = FALSE

\* A freshness check that forgets the token.
StaleIgnoringAbort(f) == ~Has(trackedPlayers, f.player)

\* The freshness check of index.ts:499 and :519.
Stale(f) == ~Has(trackedPlayers, f.player) \/ f.aborted

\* The first session a scan flags: open longer than the threshold, no
\* proactive offer made, no help request active.
FirstStuck(tp) ==
  LET flagged == { k \in 1..Len(tp) :
                     tp[k].stuck /\ ~tp[k].proactiveOffered /\ ~tp[k].helpRequestActive }
  IN IF flagged = {} THEN 0 ELSE CHOOSE k \in flagged : \A l \in flagged : k <= l

\* The single-flight gate of the stuck-detection callback (index.ts:593).
GateFree == ~(isBusy \/ proactiveControllerRef # 0)

\* A stuck-detection scan finds a session and the callback passes the gate:
\* handleProactiveApproach from its entry to its first await.
StuckDetected(maxPro) ==
  /\ mq = <<>>
  /\ Len(pro) < maxPro
  /\ FirstStuck(trackedPlayers) # 0
  /\ GateFree
  /\ LET player == trackedPlayers[FirstStuck(trackedPlayers)].playerId
         j == Len(pro) + 1
         aborted == AbortWanderTasks(wander, wanderControllerRef)
         path == ApproachPath(world, TerminalOf(player))
     IN /\ mq' = AbortWanderQueue(wander, mq, wanderControllerRef)
        /\ IF world.map = NoMap
           THEN /\ trackedPlayers' =
                     MarkOffered(trackedPlayers, ProFlow("done", player, FALSE, <<>>, FALSE))
                /\ pro' = Append(pro, ProEnded)
                /\ proactiveControllerRef' = 0
                /\ RestartWandering(world, aborted)
                /\ isBusy' = FALSE
           ELSE /\ pro' = Append(pro,
                     IF Len(path) >= 2
                     THEN ProFlow("publishing", player, FALSE, path, FALSE)
                     ELSE ProFlow("gen", player, FALSE, <<>>, FALSE))
                /\ proactiveControllerRef' = j
                /\ wander' = aborted
                /\ isBusy' = TRUE
                /\ UNCHANGED << wanderControllerRef, trackedPlayers >>
  /\ UNCHANGED << world, help >>

\* publishPath of the proactive flow resolves or rejects (caught); then
\* abortableSleep(walkDuration), which an aborted signal ends at once.
ProPathPublishReturns(j, ok) ==
  /\ mq = <<>>
  /\ pro[j].pc = "publishing"
  /\ IF AbortedAtSleep(pro[j])
     THEN ProExit(j, [pro EXCEPT ![j].pathPublished = ok], world)
     ELSE /\ pro' = [pro EXCEPT ![j].pc = "walking", ![j].pathPublished = ok]
          /\ UNCHANGED << wander, wanderControllerRef, proactiveControllerRef, isBusy >>
  /\ UNCHANGED << world, help, trackedPlayers, mq >>

\* The walk sleep completes: commit, then the check before generation.
ProWalkCompleted(j) ==
  /\ mq = <<>>
  /\ pro[j].pc = "walking"
  /\ world' = [world EXCEPT !.position = pro[j].path[Len(pro[j].path)]]
  /\ IF Stale(pro[j])
     THEN ProExit(j, pro, world')
     ELSE /\ pro' = [pro EXCEPT ![j].pc = "gen", ![j].path = <<>>,
                                ![j].pathPublished = FALSE]
          /\ UNCHANGED << wander, wanderControllerRef, proactiveControllerRef, isBusy >>
  /\ UNCHANGED << help, trackedPlayers, mq >>

\* The generation call returns (ok) or throws (~ok, caught at index.ts:548).
ProGenReturns(j, ok) ==
  /\ mq = <<>>
  /\ pro[j].pc = "gen"
  /\ IF ok
     THEN /\ IF Stale(pro[j])
             THEN ProExit(j, pro, world)
             ELSE /\ pro' = [pro EXCEPT ![j].pc = "pubNudge", ![j].nudge = "text"]
                  /\ UNCHANGED << wander, wanderControllerRef,
                                  proactiveControllerRef, isBusy >>
          /\ UNCHANGED trackedPlayers
     ELSE /\ trackedPlayers' = MarkOffered(trackedPlayers, pro[j])
          /\ IF AbortedAtSleep(pro[j])
             THEN ProExit(j, pro, world)
             ELSE /\ pro' = [pro EXCEPT ![j].pc = "linger", ![j].genFailed = TRUE]
                  /\ UNCHANGED << wander, wanderControllerRef,
                                  proactiveControllerRef, isBusy >>
  /\ UNCHANGED << world, help, mq >>

\* The publish of the nudge resolves or throws (caught): mark, linger.
ProNudgePublishReturns(j, ok) ==
  /\ mq = <<>>
  /\ pro[j].pc = "pubNudge"
  /\ trackedPlayers' = MarkOffered(trackedPlayers, pro[j])
  /\ IF AbortedAtSleep(pro[j])
     THEN ProExit(j, pro, world)
     ELSE /\ pro' = [pro EXCEPT ![j].pc = "linger"]
          /\ UNCHANGED << wander, wanderControllerRef, proactiveControllerRef, isBusy >>
  /\ UNCHANGED << world, help, mq >>

\* The linger sleep completes.
ProLingerElapsed(j) ==
  /\ mq = <<>>
  /\ pro[j].pc = "linger"
  /\ ProExit(j, pro, world)
  /\ UNCHANGED << world, help, trackedPlayers, mq >>

\* The microtask of an aborted abortableSleep in a proactive flow (the walk
\* or the linger): the flow returns.
ProAborted(j) ==
  /\ ProExit(j, pro, world)
  /\ UNCHANGED << world, help, trackedPlayers >>

\* ------------------------------------------------- index.ts: other events
\* DataReceived, topic map-info.
MapInfoReceived(m) ==
  /\ mq = <<>>
  /\ world' = [map |-> m, position |-> MapOf(m).spawnPoint]
  /\ UNCHANGED << wander, wanderControllerRef, mq >> /\ UNCHANGED_flows

\* DataReceived, topic terminal-activity, action open.
TerminalOpened(p) ==
  /\ mq = <<>>
  /\ trackedPlayers' = TableSet(trackedPlayers, Session(p))
  /\ pro' = Detach(pro, p)
  /\ UNCHANGED << world, wander, wanderControllerRef, help,
                  proactiveControllerRef, isBusy, mq >>

\* DataReceived, topic terminal-activity, action close.
TerminalClosed(p) ==
  /\ mq = <<>>
  /\ Has(trackedPlayers, p)
  /\ trackedPlayers' = TableDelete(trackedPlayers, p)
  /\ pro' = Detach(pro, p)
  /\ UNCHANGED << world, wander, wanderControllerRef, help,
                  proactiveControllerRef, isBusy, mq >>

\* ParticipantDisconnected.
ParticipantDisconnected(p) ==
  /\ mq = <<>>
  /\ Has(trackedPlayers, p)
  /\ trackedPlayers' = TableDelete(trackedPlayers, p)
  /\ pro' = Detach(pro, p)
  /\ UNCHANGED << world, wander, wanderControllerRef, help,
                  proactiveControllerRef, isBusy, mq >>

\* Time passes: the session of p has been open longer than the threshold.
SessionBecomesStuck(p) ==
  /\ mq = <<>>
  /\ Has(trackedPlayers, p)
  /\ ~trackedPlayers[IndexOf(trackedPlayers, p)].stuck
  /\ trackedPlayers' = [trackedPlayers EXCEPT ![IndexOf(trackedPlayers, p)].stuck = TRUE]
  /\ UNCHANGED << world, wander, wanderControllerRef, help, pro,
                  proactiveControllerRef, isBusy, mq >>

\* The microtask at the head of the queue runs.
RunMicrotask ==
  /\ mq # <<>>
  /\ mq' = Tail(mq)
  /\ \/ Head(mq)[1] = "wander" /\ WanderAborted(Head(mq)[2])
     \/ Head(mq)[1] = "pro" /\ ProAborted(Head(mq)[2])

\* -------------------------------------------------------- specification
\* The entry function up to `await new Promise(() => {})`: no map, the
\* default spawn, one wander task waiting for the map.
\* ------------------------------------------------------------ abortableSleep
\* abortableSleep(ms, signal) on its own (agent-loop.ts 85-102): the calls
\* made so far, each with its signal, its timer, its abort listener and
\* the state of the Promise it returned.
MaxSleeps == 3

Signals == {"s1", "s2"}

\* new Promise: not settled, the executor has not run yet.
NewPromise(signal, abortedAtCall) ==
  [ signal        |-> signal,
    abortedAtCall |-> abortedAtCall,
    timer         |-> "none",       \* none, pending, fired, cleared
    listener      |-> FALSE,
    settled       |-> "pending" ]   \* pending, true, false

\* resolve(value) of a Promise: only the first call settles it.
resolve(c, value) ==
  [ c EXCEPT !.settled = IF @ = "pending" THEN value ELSE @ ]

\* The executor without the test of signal.aborted.
abortableSleepAlwaysArms(signal, aborted) ==
  [ NewPromise(signal, aborted) EXCEPT !.timer = "pending", !.listener = TRUE ]

\* The executor (87-100): resolve(false) at once on an aborted signal,
\* otherwise arm the timer and add the abort listener.
abortableSleep(signal, aborted) ==
  IF aborted
    THEN resolve(NewPromise(signal, aborted), "false")
    ELSE [ NewPromise(signal, aborted) EXCEPT !.timer = "pending", !.listener = TRUE ]

\* onAbort (95-98): clearTimeout, resolve(false); the listener is once.
onAbort(c) ==
  resolve([ c EXCEPT !.timer = IF @ = "pending" THEN "cleared" ELSE @,
                     !.listener = FALSE ], "false")

\* The timer callback (94): resolve(true).
onTimeout(c) == resolve([ c EXCEPT !.timer = "fired" ], "true")

botVars == << world, wander, wanderControllerRef, help, pro,
              proactiveControllerRef, isBusy, trackedPlayers, mq >>

\* A caller awaits abortableSleep on one of the signals.
SleepCalled(s) ==
  /\ Len(sleeps.calls) < MaxSleeps
  /\ sleeps' = [ sleeps EXCEPT
       !.calls = Append(@, abortableSleep(s, sleeps.aborted[s])) ]
  /\ UNCHANGED << botVars, inbound, search, directions, chat >>

\* The timer of call k fires.
SleepTimerFires(k) ==
  /\ sleeps.calls[k].timer = "pending"
  /\ sleeps' = [ sleeps EXCEPT !.calls[k] = onTimeout(@) ]
  /\ UNCHANGED << botVars, inbound, search, directions, chat >>

\* controller.abort() on a signal not yet aborted: the flag is set and the
\* listeners on the signal run.
SignalAborted(s) ==
  /\ ~sleeps.aborted[s]
  /\ sleeps' = [ sleeps EXCEPT
       !.aborted[s] = TRUE,
       !.calls = [ k \in DOMAIN @ |->
                     IF @[k].signal = s /\ @[k].listener THEN onAbort(@[k]) ELSE @[k] ] ]
  /\ UNCHANGED << botVars, inbound, search, directions, chat >>

\* No abortableSleep call is examined during the bot's run.
NoSleeps == [aborted |-> [s \in Signals |-> FALSE], calls |-> <<>>]

\* ------------------------------------------------------ inbound events
\* The DataReceived handler on its own (index.ts 620-732): well-formed and
\* malformed payloads of each topic.  `inbound` records the topic and the
\* defect of the last payload handled, and flips `turn` at every payload.
\* `session` is each identity's last session event: open, close, departed.
NoInbound ==
  [ topic |-> "none", defect |-> "none", turn |-> FALSE, identity |-> "",
    session |-> [p \in Players |-> "none"] ]

Handled(topic, defect) ==
  inbound' = [ inbound EXCEPT !.topic = topic, !.defect = defect, !.turn = ~@ ]

\* After these steps the bot's own tasks are not followed.
Quiet == UNCHANGED << wander, wanderControllerRef, help, pro,
                      proactiveControllerRef, isBusy, mq, sleeps, search, directions, chat >>

\* The map-info handler (634-667) on a malformed payload.  JSON.parse
\* throws on an unparsable payload, and message.spawnPoint[0] throws when
\* spawnPoint is missing, both before any assignment.  With barriers
\* missing, world.map and world.position are assigned (637-650) and the
\* log line throws on world.map.barriers.length (652-657): the catch logs.
mapInfoHandler(w, defect) ==
  IF defect \in {"unparsable", "noSpawnPoint"} THEN w
  ELSE [ map |-> MapNoBarriers.mapId, position |-> MapNoBarriers.spawnPoint ]

MalformedMapInfo(defect) ==
  /\ world' = mapInfoHandler(world, defect)
  /\ Handled("map-info", defect)
  /\ UNCHANGED trackedPlayers /\ Quiet

\* The terminal-activity handler (670-703) on a malformed payload: an
\* unparsable one throws in JSON.parse; an open without terminalX and
\* terminalY is stored like any other open (679-690).
terminalActivityHandler(table, p, defect) ==
  IF defect = "unparsable" THEN table ELSE TableSet(table, Session(p))

MalformedTerminalActivity(p, defect) ==
  /\ trackedPlayers' = terminalActivityHandler(trackedPlayers, p, defect)
  /\ Handled("terminal-activity", defect)
  /\ UNCHANGED world /\ Quiet

\* The help-request handler (706-732) on an unparsable payload: JSON.parse
\* throws before anything else.
UnparsableHelpRequest ==
  /\ Handled("help-request", "unparsable")
  /\ UNCHANGED << world, trackedPlayers >> /\ Quiet

\* The well-formed events, recorded.
WellFormedMapInfo(m) ==
  /\ MapInfoReceived(m)
  /\ Handled("map-info", "none")
  /\ UNCHANGED << sleeps, search, directions, chat >>

WellFormedTerminalActivity(p) ==
  /\ \/ TerminalOpened(p)
     \/ TerminalClosed(p)
  /\ Handled("terminal-activity", "none")
  /\ UNCHANGED << sleeps, search, directions, chat >>

\* The session events of identity p, recorded.  A close or a departure of
\* an identity without an entry changes nothing (Map.delete).
SessionEvent(p, event) ==
  /\ inbound' = [ inbound EXCEPT !.topic = "session", !.defect = "none",
                                 !.turn = ~@, !.identity = p,
                                 !.session[p] = event ]
  /\ UNCHANGED << sleeps, search, directions, chat >>

NothingToDelete(p) ==
  /\ mq = <<>>
  /\ ~Has(trackedPlayers, p)
  /\ UNCHANGED << world, wander, wanderControllerRef, help, pro,
                  proactiveControllerRef, isBusy, trackedPlayers, mq >>

SessionOpened(p) == TerminalOpened(p) /\ SessionEvent(p, "open")

SessionClosed(p) ==
  /\ TerminalClosed(p) \/ NothingToDelete(p)
  /\ SessionEvent(p, "close")

SessionDeparted(p) ==
  /\ ParticipantDisconnected(p) \/ NothingToDelete(p)
  /\ SessionEvent(p, "departed")

\* A step of the bot leaves the two examinations alone.
\* ----------------------------------------------------- findPath on its own
\* One call of findPath: its arguments, the path it returns, and the turns
\* of its while loop one at a time (the open set and the score maps after
\* each turn, and the key the turn took from the open set).
Keys(gridSize) == { key(c) : c \in Grid(gridSize) }

\* The first two tests of findPath return before the search starts.
ReturnsEarly(start, goal, barrierSet) ==
  key(start) = key(goal) \/ key(goal) \in barrierSet

\* The maps and the open set before the first turn of the loop.
SearchStart(start, goal) ==
  [ openSet  |-> <<key(start)>>,
    gScore   |-> (key(start) :> 0),
    fScore   |-> (key(start) :> CARDINAL_COST * Cheb(start, goal)),
    cameFrom |-> << >> ]

NoSearch ==
  [ pc |-> "idle", start |-> NoCell, goal |-> NoCell, barrierSet |-> {},
    gridSize |-> 0, result |-> <<>>, st |-> SearchStart(NoCell, NoCell),
    currentKey |-> <<>>, path |-> <<>> ]

FindPathCalled(start, goal, barrierSet, gridSize) ==
  /\ search.pc = "idle"
  /\ search' =
       [ pc |-> IF ReturnsEarly(start, goal, barrierSet)
                THEN "returned" ELSE "searching",
         start |-> start, goal |-> goal,
         barrierSet |-> barrierSet, gridSize |-> gridSize,
         result |-> findPath(start, goal, barrierSet, gridSize),
         st |-> SearchStart(start, goal),
         currentKey |-> <<>>,
         path |-> IF key(start) = key(goal) THEN <<start>> ELSE <<>> ]
  /\ UNCHANGED << botVars, sleeps, inbound, directions, chat >>

\* One turn of the while loop: the open set is empty and the call returns
\* the empty path, or the scan picks a key; the goal ends the search with
\* the reconstructed path, any other cell is expanded.
FindPathIterates ==
  /\ search.pc = "searching"
  /\ search' =
       IF Len(search.st.openSet) = 0
       THEN [search EXCEPT !.pc = "returned", !.currentKey = <<>>, !.path = <<>>]
       ELSE LET currentKey == LowestF(search.st.openSet, search.st.fScore,
                                      1, <<>>, Infinity)
            IN IF currentKey = key(search.goal)
               THEN [search EXCEPT
                       !.pc = "returned",
                       !.currentKey = currentKey,
                       !.path = Reconstruct(search.st.cameFrom, key(search.goal), <<>>)]
               ELSE [search EXCEPT
                       !.currentKey = currentKey,
                       !.st = Expand([search.st EXCEPT
                                        !.openSet = SeqDelete(@, currentKey)],
                                     Cell(currentKey[1], currentKey[2]),
                                     currentKey,
                                     search.st.gScore[currentKey], 1,
                                     search.goal, search.barrierSet,
                                     search.gridSize)]
  /\ UNCHANGED << botVars, sleeps, inbound, directions, chat >>

\* The 5x5 grid without barriers, from one corner to the opposite one.
OpenGrid ==
  [ start |-> Cell(0, 0), goal |-> Cell(4, 4), barrierSet |-> {}, gridSize |-> 5 ]

\* -------------------------------------------- pathToDirections on its own
\* One call of pathToDirections: the path it is given and the list it
\* returns.
NoDirections == [ pc |-> "idle", path |-> <<>>, result |-> <<>> ]

PathToDirectionsCalled(path) ==
  /\ directions.pc = "idle"
  /\ directions' = [ pc |-> "returned", path |-> path,
                     result |-> pathToDirections(path) ]
  /\ UNCHANGED << botVars, sleeps, inbound, search, chat >>

\* The paths of n cells of the grid of side MaxGridSize, any cell after any.
Paths(n) == [ 1..n -> Grid(MaxGridSize) ]

\* ------------------------------------------------------ index.ts: chat
\* messageHistory (the roles of its entries, oldest first) and the
\* handleChatMessage calls in progress, counted by the await they are at:
\* the generation call of a regular message (gen) or of a challenge
\* evaluation (evalGen), the publish of the response (pub), the publish of
\* the error message in the catch (errPub).
NoChat ==
  [ history |-> <<>>, gen |-> 0, evalGen |-> 0, pub |-> 0, errPub |-> 0,
    received |-> 0 ]

ChatPending == chat.gen + chat.evalGen + chat.pub + chat.errPub

\* while (messageHistory.length > MAX_HISTORY) messageHistory.shift()
RECURSIVE Trim(_)
Trim(history) ==
  IF Len(history) > MAX_HISTORY THEN Trim(Tail(history)) ELSE history

\* The push of the user message, with its trim (index.ts 171-180).
PushUser(history, role) == Trim(Append(history, role))

\* The push of the response (index.ts 209-214): no trim follows it.
PushAssistant(history, role) == Append(history, role)

\* The chat event with its text and id: handleChatMessage runs to its
\* generation call.
ChatMessageReceived(isChallenge) ==
  /\ chat.received < MaxChat
  /\ ChatPending < MaxChatPending
  /\ chat' = IF isChallenge
             THEN [chat EXCEPT !.evalGen = @ + 1, !.received = @ + 1]
             ELSE [chat EXCEPT !.history = PushUser(@, "user"),
                               !.gen = @ + 1, !.received = @ + 1]
  /\ UNCHANGED << botVars, sleeps, inbound, search, directions >>

\* The generation call returns or throws.
ChatGenerationReturns(isChallenge, ok) ==
  /\ IF isChallenge THEN chat.evalGen > 0 ELSE chat.gen > 0
  /\ LET started == IF isChallenge
                    THEN [chat EXCEPT !.evalGen = @ - 1]
                    ELSE [chat EXCEPT !.gen = @ - 1]
     IN chat' = IF ~ok THEN [started EXCEPT !.errPub = @ + 1]
                ELSE IF isChallenge THEN [started EXCEPT !.pub = @ + 1]
                ELSE [started EXCEPT !.history = PushAssistant(@, "assistant"),
                                     !.pub = @ + 1]
  /\ UNCHANGED << botVars, sleeps, inbound, search, directions >>

\* The publish of the response returns, or rejects into the catch.
ChatPublishReturns(ok) ==
  /\ chat.pub > 0
  /\ chat' = IF ok THEN [chat EXCEPT !.pub = @ - 1]
             ELSE [chat EXCEPT !.pub = @ - 1, !.errPub = @ + 1]
  /\ UNCHANGED << botVars, sleeps, inbound, search, directions >>

\* The publish of the error message returns or rejects: the handler is over.
ChatErrorPublishReturns ==
  /\ chat.errPub > 0
  /\ chat' = [chat EXCEPT !.errPub = @ - 1]
  /\ UNCHANGED << botVars, sleeps, inbound, search, directions >>

Idle == UNCHANGED << sleeps, inbound, search, directions, chat >>

Init ==
  /\ world = [map |-> NoMap, position |-> DEFAULT_SPAWN]
  /\ wander = << WanderTask("waitMap", FALSE, NoMap, NoCell, <<>>) >>
  /\ wanderControllerRef = 1
  /\ help = <<>>
  /\ pro = <<>>
  /\ proactiveControllerRef = 0
  /\ isBusy = FALSE
  /\ trackedPlayers = <<>>
  /\ mq = <<>>
  /\ sleeps = NoSleeps
  /\ inbound = NoInbound
  /\ search = NoSearch
  /\ directions = NoDirections
  /\ chat = NoChat

\* A terminal session ends.  Only p2 has terminal sessions.
Departures ==
  \/ TerminalClosed("p2") /\ Idle
  \/ ParticipantDisconnected("p2") /\ Idle

\* The other events of the room, and the scans: at most maxHelp help
\* requests and maxPro proactive flows.
Events(maxHelp, maxPro) ==
  \/ \E m \in MapIds : MapInfoReceived(m) /\ Idle
  \/ TerminalOpened("p2") /\ Idle
  \/ SessionBecomesStuck("p2") /\ Idle
  \/ \E p \in Players : HelpRequestReceived(p, maxHelp) /\ Idle
  \/ StuckDetected(maxPro) /\ Idle

\* The timers and the publishes of the wander tasks.
WanderSteps ==
  \/ \E i \in 1..Len(wander) : WanderMapArrived(i) /\ Idle
  \/ \E i \in 1..Len(wander) : WanderSleepElapsed(i) /\ Idle
  \/ \E i \in 1..Len(wander), ok \in BOOLEAN : WanderPublishReturns(i, ok) /\ Idle
  \/ \E i \in 1..Len(wander) : WanderWalkCompleted(i) /\ Idle

\* The timers, the publishes and the generation calls of the flows.
FlowSteps ==
  \/ \E h \in 1..Len(help), ok \in BOOLEAN : HelpPathPublishReturns(h, ok) /\ Idle
  \/ \E h \in 1..Len(help) : HelpWalkElapsed(h) /\ Idle
  \/ \E h \in 1..Len(help), ok \in BOOLEAN : HelpHintReturns(h, ok) /\ Idle
  \/ \E h \in 1..Len(help), ok \in BOOLEAN : HelpResponsePublishReturns(h, ok) /\ Idle
  \/ \E h \in 1..Len(help) : HelpLingerElapsed(h) /\ Idle
  \/ \E j \in 1..Len(pro), ok \in BOOLEAN : ProPathPublishReturns(j, ok) /\ Idle
  \/ \E j \in 1..Len(pro) : ProWalkCompleted(j) /\ Idle
  \/ \E j \in 1..Len(pro), ok \in BOOLEAN : ProGenReturns(j, ok) /\ Idle
  \/ \E j \in 1..Len(pro), ok \in BOOLEAN : ProNudgePublishReturns(j, ok) /\ Idle
  \/ \E j \in 1..Len(pro) : ProLingerElapsed(j) /\ Idle

Next ==
  \/ RunMicrotask /\ Idle
  \/ Events(MaxHelp, MaxProactive)
  \/ Departures
  \/ WanderSteps
  \/ FlowSteps

Spec == Init /\ [][Next]_vars

\* The behaviours in which no timer and no publish of a wander task comes
\* due and no terminal session ends: more flows, each with every step of its
\* own.
NextFlows ==
  \/ RunMicrotask /\ Idle
  \/ Events(DeepHelp, DeepProactive)
  \/ FlowSteps

SpecFlows == Init /\ [][NextFlows]_vars

\* The wander tasks there can be: the first, and one per exit of a flow.
WanderSlots == 1..(MaxHelp + MaxProactive + 1)

\* Spec with the scheduling of the event loop for a cancelled wander task:
\* a queued microtask runs, and a pending publish returns or fails.
WanderFairness ==
  /\ WF_vars(RunMicrotask /\ Idle)
  /\ \A i \in WanderSlots :
       WF_vars(\E ok \in BOOLEAN :
                 i <= Len(wander) /\ WanderPublishReturns(i, ok) /\ Idle)

SpecWanderLive == Spec /\ WanderFairness

\* abortableSleep on its own: calls, timers and aborts in every order.
NextSleep ==
  \/ \E s \in Signals : SleepCalled(s)
  \/ \E k \in 1..Len(sleeps.calls) : SleepTimerFires(k)
  \/ \E s \in Signals : SignalAborted(s)

SpecSleep == Init /\ [][NextSleep]_vars

\* The DataReceived handler on its own, with malformed payloads.
MapInfoDefects == {"unparsable", "noSpawnPoint", "noBarriers"}
TerminalActivityDefects == {"unparsable", "noCoordinates"}

NextMalformed ==
  \/ \E m \in MapIds : WellFormedMapInfo(m)
  \/ \E p \in Players : WellFormedTerminalActivity(p)
  \/ \E defect \in MapInfoDefects : MalformedMapInfo(defect)
  \/ \E p \in Players, defect \in TerminalActivityDefects : MalformedTerminalActivity(p, defect)
  \/ UnparsableHelpRequest

SpecMalformed == Init /\ [][NextMalformed]_vars

\* The session events of both identities in every order, with the help
\* requests, the scans and the flows that write into the entries.
NextSessions ==
  \/ RunMicrotask /\ Idle
  \/ \E m \in MapIds : MapInfoReceived(m) /\ Idle
  \/ \E p \in Players : SessionOpened(p)
  \/ \E p \in Players : SessionClosed(p)
  \/ \E p \in Players : SessionDeparted(p)
  \/ \E p \in Players : SessionBecomesStuck(p) /\ Idle
  \/ \E p \in Players : HelpRequestReceived(p, MaxHelp) /\ Idle
  \/ StuckDetected(MaxProactive) /\ Idle
  \/ FlowSteps

SpecSessions == Init /\ [][NextSessions]_vars

\* The help-request flows with every publish succeeding, after well-formed
\* and malformed map-info events; each flow's timers fire, its generation
\* call returns or fails, its publishes return.
HelpSteps(h) ==
  \/ HelpPathPublishReturns(h, TRUE) /\ Idle
  \/ HelpWalkElapsed(h) /\ Idle
  \/ \E ok \in BOOLEAN : HelpHintReturns(h, ok) /\ Idle
  \/ HelpResponsePublishReturns(h, TRUE) /\ Idle
  \/ HelpLingerElapsed(h) /\ Idle

NextHelp ==
  \/ RunMicrotask /\ Idle
  \/ \E m \in MapIds : WellFormedMapInfo(m)
  \/ \E defect \in MapInfoDefects : MalformedMapInfo(defect)
  \/ \E p \in Players : HelpRequestReceived(p, DeepHelp) /\ Idle
  \/ \E h \in 1..Len(help) : HelpSteps(h)

HelpFairness ==
  /\ WF_vars(RunMicrotask /\ Idle)
  /\ \A h \in 1..DeepHelp : WF_vars(h <= Len(help) /\ HelpSteps(h))

SpecHelpLive == Init /\ [][NextHelp]_vars /\ HelpFairness

\* findPath on its own: every call with its cells and its barriers drawn
\* from the grid of side MaxGridSize, on a grid of that side or smaller (a
\* cell or a barrier may then lie outside the grid), and the call on the
\* open 5x5 grid.
NextPath ==
  \/ /\ search.pc = "idle"
     /\ \E gridSize \in 1..MaxGridSize :
          \E start \in Grid(MaxGridSize), goal \in Grid(MaxGridSize) :
            \E barrierSet \in SUBSET Keys(MaxGridSize) :
              FindPathCalled(start, goal, barrierSet, gridSize)
  \/ FindPathCalled(OpenGrid.start, OpenGrid.goal,
                    OpenGrid.barrierSet, OpenGrid.gridSize)
  \/ FindPathIterates

SpecPath == Init /\ [][NextPath]_vars

\* pathToDirections on its own: every call with a path of up to MaxCells
\* cells, consecutive cells equal, adjacent or further apart.
NextDirections ==
  \E n \in 0..MaxCells : \E path \in Paths(n) : PathToDirectionsCalled(path)

SpecDirections == Init /\ [][NextDirections]_vars

\* The chat handlers on their own.
NextChat ==
  \/ \E isChallenge \in BOOLEAN : ChatMessageReceived(isChallenge)
  \/ \E isChallenge \in BOOLEAN, ok \in BOOLEAN :
       ChatGenerationReturns(isChallenge, ok)
  \/ \E ok \in BOOLEAN : ChatPublishReturns(ok)
  \/ ChatErrorPublishReturns

SpecChat == Init /\ [][NextChat]_vars

\* The behaviours in which the map is replaced while a wander task or a
\* help-request flow walks.
NextRemap ==
  \/ RunMicrotask /\ Idle
  \/ \E m \in RemapIds : MapInfoReceived(m) /\ Idle
  \/ \E p \in Players : HelpRequestReceived(p, MaxHelp) /\ Idle
  \/ \E h \in 1..Len(help) : HelpSteps(h)
  \/ WanderSteps

SpecRemap == Init /\ [][NextRemap]_vars

\* ---------------------------------------------------------------- claims
\* A wander task that is live and not cancelled.
WanderRunning(t) == t.pc \notin {"free", "done"} /\ ~t.aborted

HelpFlowsInProgress == { h \in 1..Len(help) : HelpInProgress(help[h]) }
ProFlowsInProgress == { j \in 1..Len(pro) : ProInProgress(pro[j]) }
ApproachInProgress == HelpFlowsInProgress # {} \/ ProFlowsInProgress # {}

\* A flow returns or throws in this step (a proactive flow that meets no map
\* starts and returns in one step).
HelpFlowExits == \E h \in HelpFlowsInProgress : ~HelpInProgress(help'[h])
ProFlowExits ==
  \/ \E j \in ProFlowsInProgress : ~ProInProgress(pro'[j])
  \/ Len(pro') > Len(pro) /\ ~ProInProgress(pro'[Len(pro')])

\* A new wander task, live and not cancelled, is in the slot after this step.
WanderRestarted ==
  /\ wanderControllerRef' # wanderControllerRef
  /\ WanderRunning(wander'[wanderControllerRef'])

\* C1: while a help-request flow or a proactive-approach flow is in progress
\* no wander task is live and not cancelled.
MutualExclusion ==
  ApproachInProgress => \A i \in 1..Len(wander) : ~WanderRunning(wander[i])

\* C2: at most one approach flow, help-request or proactive, is in progress
\* at any time.
SingleFlight ==
  Cardinality(HelpFlowsInProgress) + Cardinality(ProFlowsInProgress) <= 1

\* C3: every exit of an approach flow, normal, by cancellation or by a throw
\* of a publish, restarts wandering and stores the new controller in the slot.
EveryExitRestartsWandering ==
  [][HelpFlowExits \/ ProFlowExits => WanderRestarted]_vars

\* C4: a help request handled while a proactive flow is in progress signals
\* the token of that flow.
HelpRequestSignalsProactive ==
  [][Len(help') > Len(help) =>
       \A j \in ProFlowsInProgress : pro'[j].aborted]_vars

\* C5: the stuck-detection callback starts a proactive flow only when no
\* approach flow is in progress.
ProactiveStartsWhenIdle ==
  [][Len(pro') > Len(pro) => ~ApproachInProgress]_vars

\* C6: the step that enters a help-request flow or a proactive-approach flow
\* leaves the token held in the wander slot cancelled: the abort comes before
\* the flow's first await.
WanderAbortedOnEntry ==
  [][Len(help') > Len(help) \/ Len(pro') > Len(pro) =>
       wander[wanderControllerRef].aborted \/ wander'[wanderControllerRef].aborted]_vars

\* A flow has just been entered during a walk of the wander task of the slot:
\* the token is cancelled and the wake-up of the walk sleep is pending.
WanderAbortedOnEntryWitness ==
  /\ ApproachInProgress
  /\ wander[wanderControllerRef].pc = "walking"
  /\ wander[wanderControllerRef].aborted
  /\ mq # <<>>

\* The token of the flow is not cancelled and its session is in the table.
Fresh(f, tp) == ~f.aborted /\ Has(tp, f.player)

\* Flow j starts its generation call, or hands its nudge to publishData, in
\* this step.
GenCallStarts(j) == pro'[j].pc = "gen" /\ (j > Len(pro) \/ pro[j].pc # "gen")
NudgePublished(j) == j <= Len(pro) /\ pro'[j].pc = "pubNudge" /\ pro[j].pc # "pubNudge"

\* C7: a proactive flow starts its generation call only with its token not
\* cancelled and its session tracked, and publishes its nudge only from the
\* return of that call, with its token still not cancelled and its session
\* still tracked.
NudgeOnlyWhenFresh ==
  [][\A j \in 1..Len(pro') :
       /\ GenCallStarts(j) => Fresh(pro'[j], trackedPlayers')
       /\ NudgePublished(j) => pro[j].pc = "gen" /\ Fresh(pro[j], trackedPlayers)]_vars

\* A nudge is on its way: both checks passed.
NudgeOnlyWhenFreshWitness ==
  \E j \in 1..Len(pro) : pro[j].pc = "pubNudge" /\ Fresh(pro[j], trackedPlayers)

CancelledWalkKeepsPosition ==
  [][\A i \in 1..Len(wander) :
       wander[i].aborted /\ wander[i].pc \in {"publishing", "walking"}
       /\ wander'[i] # wander[i]
         => wander'[i].pc \in {"done", "free"} /\ world'.position = world.position]_vars

\* The token of a task is cancelled during its walk sleep, the path published.
CancelledWalkKeepsPositionWitness ==
  \E i \in 1..Len(wander) : wander[i].pc = "walking" /\ wander[i].aborted

\* C10: the commit of a completed walk sets the position to the last cell of
\* the published path, of at most MAX_PATH_LENGTH steps, and so not to the
\* destination when the path was truncated.
CommitIsEndOfPublishedPath ==
  [][\A i \in 1..Len(wander) :
       wander[i].pc = "walking" /\ wander'[i].pc = "pausing"
         => LET path == wander[i].path
                end == path[Len(path)]
            IN /\ Len(path) <= MAX_PATH_LENGTH + 1
               /\ world'.position = end
               /\ end # wander[i].dest => world'.position # wander[i].dest]_vars

\* A walk toward (11, 11), 22 steps from the spawn, has been committed at the
\* end of its truncated path.
CommitIsEndOfPublishedPathWitness ==
  /\ world.position = Cell(11, 9)
  /\ \E i \in 1..Len(wander) : wander[i].pc = "pausing"

\* C11: abortableSleep never rejects and resolves exactly once with a
\* boolean: false at once when the signal is already aborted at the call,
\* false when the abort comes before the timer fires, true when the timer
\* fires first; and a signal once aborted stays aborted.
SleepCalls == 1..Len(sleeps.calls)

SleepSettlesOnce ==
  \A k \in SleepCalls :
    LET c == sleeps.calls[k] IN
      /\ c.settled \in {"pending", "true", "false"}
      /\ c.abortedAtCall => c.settled = "false" /\ c.timer = "none"
      /\ c.settled = "pending" <=> c.timer = "pending"
      /\ c.settled = "true" <=> c.timer = "fired"
      /\ c.settled = "false" /\ ~c.abortedAtCall => c.timer = "cleared"

SleepStep ==
  /\ \A s \in Signals : sleeps.aborted[s] => sleeps'.aborted[s]
  /\ \A k \in SleepCalls :
       LET c == sleeps.calls[k]
           d == sleeps'.calls[k] IN
         /\ c.settled # "pending" => d.settled = c.settled
         /\ c.settled = "pending" /\ d.timer = "fired" => d.settled = "true"
         /\ c.settled = "pending" /\ sleeps'.aborted[c.signal] => d.settled = "false"
         /\ c.settled = "pending" /\ d.settled = "true" =>
              ~sleeps.aborted[c.signal] /\ c.timer = "pending" /\ d.timer = "fired"

AbortableSleepResolvesOnce == []SleepSettlesOnce /\ [][SleepStep]_vars

\* One sleep was cut short by an abort, one ran to its timer and one was
\* called on the signal already aborted.
AbortableSleepResolvesOnceWitness ==
  /\ \E k \in SleepCalls : sleeps.calls[k].timer = "cleared"
  /\ \E k \in SleepCalls : sleeps.calls[k].settled = "true"
  /\ \E k \in SleepCalls : sleeps.calls[k].abortedAtCall

\* C12: a failed path publish in a WanderTask never ends the task and
\* never changes the position: the task sleeps and, unless cancelled, starts
\* a new iteration, after any number of consecutive failures.
WanderIndexes == 1..Len(wander)

\* The publish of task i has failed in this step.
WanderPublishFailed(i) ==
  /\ wander[i].pc = "publishing"
  /\ wander'[i].pc \notin {"publishing", "walking"}

\* The sleep after a failed publish of task i is over in this step.
FailureSleepOver(i) ==
  /\ wander[i].pc = "publishFailedSleep"
  /\ wander'[i] # wander[i]
  /\ wander'[i].pc # "publishFailedSleep"

PublishFailureStep ==
  \A i \in WanderIndexes :
    /\ WanderPublishFailed(i) =>
         /\ world' = world
         /\ \/ wander[i].aborted
            \/ wander'[i].pc = "publishFailedSleep" /\ ~wander'[i].aborted
    /\ FailureSleepOver(i) =>
         /\ world' = world
         /\ \/ wander[i].aborted /\ wander'[i].pc \in {"done", "free"}
            \/ /\ ~wander[i].aborted
               /\ wander'[i] \in Iterations(wander[i].map, world.position)

PublishFailureIsRetried == [][PublishFailureStep]_vars

\* A task sleeps after a failed publish, not cancelled.
PublishFailureIsRetriedWitness ==
  \E i \in WanderIndexes :
    /\ wander[i].pc = "publishFailedSleep"
    /\ ~wander[i].aborted

\* C13: once its token is cancelled a WanderTask terminates, from whichever
\* state it is in (waiting for the map, a retry sleep, publishing, walking,
\* pausing), given that microtasks run and pending publishes return.
WanderCancelled(i) ==
  /\ i <= Len(wander)
  /\ wander[i].aborted
  /\ wander[i].pc \notin {"done", "free"}

WanderTerminated(i) ==
  /\ i <= Len(wander)
  /\ wander[i].pc \in {"done", "free"}

CancelledWanderTerminates ==
  \A i \in WanderSlots : WanderCancelled(i) ~> WanderTerminated(i)

\* A task cancelled while its publish is pending, and a third task in use.
CancelledWanderTerminatesWitness ==
  /\ \E i \in WanderSlots : WanderCancelled(i) /\ wander[i].pc = "publishing"
  /\ Len(wander) = MaxHelp + MaxProactive + 1

\* C14: every walk published, by a WanderTask, a help-request flow or a
\* proactive-approach flow, has at most MAX_PATH_LENGTH steps (at most
\* MAX_PATH_LENGTH + 1 cells).
WithinMaxSteps(path) == Len(path) <= MAX_PATH_LENGTH + 1

\* The paths handed to publishPath and not yet walked to their end.
WalksPublished ==
  { wander[i].path : i \in { k \in 1..Len(wander) : wander[k].pc \in {"publishing", "walking"} } }
  \cup { help[h].path : h \in { k \in 1..Len(help) : help[k].pc \in {"publishing", "walking"} } }
  \cup { pro[j].path : j \in { k \in 1..Len(pro) : pro[k].pc \in {"publishing", "walking"} } }

EveryWalkWithinMaxSteps == \A path \in WalksPublished : WithinMaxSteps(path)

\* C15: every movement update on the position channel, from publishPath in
\* any flow and from publishPosition, has a directions list exactly one
\* shorter than its points list.
OneShorter(update) == Len(update.directions) = Len(update.points) - 1

\* The tasks and flows that call publishPath in this step.
StartsPublishing(old, new) ==
  { k \in 1..Len(new) :
      /\ new[k].pc = "publishing"
      /\ k > Len(old) \/ old[k] # new[k] }

\* The step handles a map update: the world changes and no walk commits.
MapUpdateStep == world' # world /\ UNCHANGED << wander, help, pro >>

\* The movement updates handed to publishData in this step.
MovementUpdatesOfStep ==
  LET cellSize == MapOf(world'.map).cellSize IN
    { publishPathPayload(wander'[i].path, cellSize) : i \in StartsPublishing(wander, wander') }
    \cup { publishPathPayload(help'[h].path, cellSize) : h \in StartsPublishing(help, help') }
    \cup { publishPathPayload(pro'[j].path, cellSize) : j \in StartsPublishing(pro, pro') }
    \cup (IF MapUpdateStep
          THEN { publishPositionPayload(world'.position, cellSize) } ELSE {})

MovementUpdatesOneShorter ==
  [][\A update \in MovementUpdatesOfStep : OneShorter(update)]_vars

\* C16: the position changes only in the handling of a map update (to the
\* spawn point of the new map) and in the commit of a completed walk (to
\* the last cell of the published path); cancellations, publish failures,
\* session events and entering or leaving a flow without a completed walk
\* leave it unchanged.
PositionChanges == world'.position # world.position

MapUpdateCommit ==
  /\ UNCHANGED << wander, help, pro >>
  /\ world'.map # NoMap
  /\ world'.position = MapOf(world'.map).spawnPoint

\* Task or flow k of `old` ends its walk in this step and the position is
\* the last cell of its path.
EndsWalk(old, new, k) ==
  /\ old[k].pc = "walking"
  /\ new[k].pc # "walking"
  /\ world'.position = old[k].path[Len(old[k].path)]

\* The commit of a walk whose path was published.
PublishedWalkCommit ==
  \/ \E i \in 1..Len(wander) : EndsWalk(wander, wander', i)
  \/ \E h \in 1..Len(help) : EndsWalk(help, help', h) /\ help[h].pathPublished
  \/ \E j \in 1..Len(pro) : EndsWalk(pro, pro', j) /\ pro[j].pathPublished

PositionFrame ==
  [][PositionChanges => MapUpdateCommit \/ PublishedWalkCommit]_vars

\* C17: handling a malformed inbound event (an unparsable payload, a
\* map-info message with missing barriers, a terminal-activity message with
\* missing coordinates) drops the event: WorldState and the tracked-session
\* table are left exactly as they were.
MalformedHandled == inbound'.turn # inbound.turn /\ inbound'.defect # "none"

MalformedEventsDropped ==
  [][MalformedHandled => world' = world /\ trackedPlayers' = trackedPlayers]_vars

\* C18: the tracked-session table holds an entry for identity p exactly
\* when p's most recent session event was an open (not a close, not a
\* departure); an open creates the entry with proactiveOffered = FALSE and
\* helpRequestActive = FALSE, and a close or a departure removes it.
EntriesOf(p) == { k \in 1..Len(trackedPlayers) : trackedPlayers[k].playerId = p }

TableMatchesSessions ==
  \A p \in Players :
    /\ Cardinality(EntriesOf(p)) = IF inbound.session[p] = "open" THEN 1 ELSE 0
    /\ inbound.session[p] = "none" => EntriesOf(p) = {}

\* The step handles an open of identity p.
OpenHandled(p) ==
  /\ inbound'.turn # inbound.turn
  /\ inbound'.topic = "session"
  /\ inbound'.identity = p
  /\ inbound'.session[p] = "open"

FreshEntry(e) == ~e.proactiveOffered /\ ~e.helpRequestActive

OpenCreatesFreshEntry ==
  \A p \in Players :
    OpenHandled(p) =>
      \A k \in 1..Len(trackedPlayers') :
        trackedPlayers'[k].playerId = p => FreshEntry(trackedPlayers'[k])

SessionTableTracksOpens ==
  []TableMatchesSessions /\ [][OpenCreatesFreshEntry]_vars

\* An identity whose entry carries both flags, and one that has departed.
SessionTableTracksOpensWitness ==
  /\ \E k \in 1..Len(trackedPlayers) :
       trackedPlayers[k].proactiveOffered /\ trackedPlayers[k].helpRequestActive
  /\ \E p \in Players : inbound.session[p] = "departed"

\* C19: every handled help request eventually results in exactly one
\* help-response carrying its identifier, with or without a map, an adjacent
\* cell, a path or a successful generation call, given that timers fire, the
\* generation call returns or fails and publishes succeed.
HelpRequestHandled(h) == h <= Len(help)

\* Flow h has published its help-response.
HelpResponsePublished(h) == h <= Len(help) /\ help[h].pc \in {"linger", "done"}

\* A flow that has published its response publishes no second one.
NoSecondResponse ==
  \A h \in 1..Len(help) :
    help[h].pc \in {"linger", "done"} => help'[h].pc \in {"linger", "done"}

EveryHelpRequestAnswered ==
  /\ \A h \in 1..DeepHelp : HelpRequestHandled(h) ~> HelpResponsePublished(h)
  /\ [][NoSecondResponse]_vars

\* C20: in a help-request flow that walks, the help-response is published
\* only after the walk wait has elapsed and the position has been committed
\* to the last cell of the path; once the path is handed to publishPath, no
\* later help request and no abort of the wander or the proactive token
\* shortens the wait or prevents the commit.
HelpWalkStep(h) ==
  LET f == help[h]
      g == help'[h] IN
    \* the publish of the path only ever leads to the walk wait
    /\ f.pc = "publishing" => g.pc \in {"publishing", "walking"}
    \* nothing but the arrival of the hint touches the flow during its wait
    /\ f.pc = "walking" /\ g.pc = "walking" =>
         [g EXCEPT !.hint = f.hint, !.genFailed = f.genFailed] = f
    \* the wait ends with the commit, and only then the hint is awaited
    /\ f.pc = "walking" /\ g.pc # "walking" =>
         /\ world'.position = f.path[Len(f.path)]
         /\ g.pc \in {"awaitHint", "pubHint"}
    \* the publish of the response starts after the hint wait or at the commit
    /\ f.pc # "pubHint" /\ g.pc = "pubHint" => f.pc \in {"walking", "awaitHint"}
    /\ f.pc # "awaitHint" /\ g.pc = "awaitHint" => f.pc = "walking"

HelpResponseAfterCommit ==
  [][\A h \in 1..Len(help) : HelpWalkStep(h)]_vars

\* The first flow has walked to the cell next to the terminal of p2 and is
\* publishing its response, and a second help request has arrived.
HelpResponseAfterCommitWitness ==
  /\ Len(help) = 2
  /\ help[1].pc = "pubHint"
  /\ help[1].sender = "p2"
  /\ world.position = Cell(11, 11)

\* C21: a help request handled while WorldState has no map starts a flow that
\* publishes no movement update and does not change the position: its only
\* steps are the arrival of the hint (sendHint, index.ts 399) and the return
\* of the publish of the response (index.ts 410), and the step in which that
\* publish returns ends the flow and starts a new wander task (index.ts 285).
NoMapHelpEntered(h) == Len(help) < h /\ world.map = NoMap

NoMapHelp(h) == h <= Len(help) /\ help[h].pc \in {"nomapGen", "nomapPub"}

NoMapHelpStep(h) ==
  LET g == help'[h] IN
    /\ NoMapHelpEntered(h) =>
         /\ g.pc = "nomapGen"
         /\ g.path = <<>> /\ ~g.pathPublished
         /\ world' = world
    /\ NoMapHelp(h) /\ g # help[h] =>
         /\ world' = world
         /\ g.path = <<>> /\ ~g.pathPublished
         /\ help[h].pc = "nomapGen" =>
              g.pc = "nomapPub" /\ g.hint \in {"text", "fallback"}
         /\ help[h].pc = "nomapPub" =>
              /\ g.pc \in {"done", "failed"}
              /\ g.pc = "done" => WanderRestarted

UnitOffset(a, b) ==
  /\ a # b
  /\ Abs(b.x - a.x) <= 1
  /\ Abs(b.y - a.y) <= 1

WellFormedPath(path, start, goal, barrierSet, gridSize) ==
  Len(path) > 0 =>
    /\ path[1] = start
    /\ path[Len(path)] = goal
    /\ \A i \in 1..(Len(path) - 1) : UnitOffset(path[i], path[i + 1])
    /\ \A i \in 2..Len(path) :
         path[i] \in Grid(gridSize) /\ key(path[i]) \notin barrierSet

ReturnedPathWellFormed ==
  search.pc # "idle" =>
    WellFormedPath(search.result, search.start, search.goal,
                   search.barrierSet, search.gridSize)

\* A path of five cells around barriers has been returned.
ReturnedPathWellFormedWitness ==
  /\ search.pc = "returned"
  /\ Len(search.result) = 5
  /\ Cardinality(search.barrierSet) >= 3

\* C23, as stated: for every start, goal and grid size, findPath returns the
\* empty path when the goal is in the barrier set.
BarrierGoalAlwaysEmpty ==
  search.pc # "idle" /\ key(search.goal) \in search.barrierSet =>
    search.result = <<>>

\* C23, amended: findPath returns the empty path when the goal is in the
\* barrier set and is not the start, also when the goal is next to the start
\* or otherwise reachable; when the goal is the start the result is the
\* single-cell path, barrier or not.
BarrierGoalEmpty ==
  search.pc # "idle" /\ key(search.goal) \in search.barrierSet =>
    search.result = IF search.start = search.goal
                    THEN <<search.start>> ELSE <<>>

\* The goal is the only barrier, inside the grid and next to the start, and
\* the call has returned the empty path.
BarrierGoalEmptyWitness ==
  /\ search.pc = "returned"
  /\ search.barrierSet = {key(search.goal)}
  /\ search.goal \in Grid(search.gridSize)
  /\ search.start \in Grid(search.gridSize)
  /\ Cheb(search.start, search.goal) = 1
  /\ search.result = <<>>

\* C24: findPath(c, c, ...) returns the single-cell path [c], for every cell
\* c, barrier set and grid size: also when c is a barrier or outside the grid.
SameCellReturned ==
  search.pc # "idle" /\ search.start = search.goal =>
    search.result = <<search.start>>

\* The call has returned [c] for a cell c that is a barrier.
SameCellReturnedWitness ==
  /\ search.pc = "returned"
  /\ search.start = search.goal
  /\ key(search.start) \in search.barrierSet
  /\ search.result = <<search.start>>

\* C25: no diagonal step (x, y) -> (x + dx, y + dy) of a returned path has
\* (x + dx, y) or (x, y + dy) in the barrier set.
CutsCorner(a, b, barrierSet) ==
  /\ a.x # b.x
  /\ a.y # b.y
  /\ <<b.x, a.y>> \in barrierSet \/ <<a.x, b.y>> \in barrierSet

NoCornerCutting ==
  \A i \in 1..(Len(search.result) - 1) :
    ~CutsCorner(search.result[i], search.result[i + 1], search.barrierSet)

\* The goal is diagonally next to the start, one of the two cells beside
\* that diagonal is a barrier, and the returned path goes round in two steps.
NoCornerCuttingWitness ==
  /\ search.pc = "returned"
  /\ CutsCorner(search.start, search.goal, search.barrierSet)
  /\ Cheb(search.start, search.goal) = 1
  /\ Len(search.result) = 3

\* C26, as stated: on a grid whose barriers are exactly (1,0) and (0,1),
\* findPath from (0,0) to (1,1) does not take the direct diagonal step and
\* returns a path round the barriers, of length at least 3.
BlockedCorner ==
  /\ search.pc # "idle"
  /\ search.start = Cell(0, 0)
  /\ search.goal = Cell(1, 1)
  /\ search.barrierSet = {<<1, 0>>, <<0, 1>>}
  /\ search.gridSize >= 2

BlockedCornerRoutedAround ==
  BlockedCorner =>
    /\ search.result # << Cell(0, 0), Cell(1, 1) >>
    /\ Len(search.result) >= 3

\* C26, amended: on such a grid findPath from (0,0) to (1,1) does not take
\* the direct diagonal step; the start has no other neighbour to move to, and
\* the call returns the empty path.
BlockedCornerEmpty ==
  BlockedCorner => search.result = <<>>

\* The call on the 3x3 grid has taken the start from the open set, added
\* nothing, and returned.
BlockedCornerEmptyWitness ==
  /\ BlockedCorner
  /\ search.gridSize = 3
  /\ search.pc = "returned"
  /\ search.currentKey = <<>>
  /\ search.st.openSet = <<>>

\* C27: for start # goal, findPath returns the empty path exactly when no
\* sequence of legal moves (to a cell inside the grid that is not a barrier,
\* by a unit offset, a diagonal only with no barrier beside it) leads from
\* start to goal: an enclosed goal gives the empty path, and a goal with a
\* legal route a non-empty one.
LegalMove(a, b, barrierSet, gridSize) ==
  /\ UnitOffset(a, b)
  /\ b \in Grid(gridSize)
  /\ key(b) \notin barrierSet
  /\ ~CutsCorner(a, b, barrierSet)

\* The cells that sequences of legal moves lead to from the cells of seen.
RECURSIVE LegallyReachable(_, _, _)
LegallyReachable(seen, barrierSet, gridSize) ==
  LET more == { b \in Grid(gridSize) :
                  \E a \in seen : LegalMove(a, b, barrierSet, gridSize) }
  IN IF more \subseteq seen THEN seen
     ELSE LegallyReachable(seen \cup more, barrierSet, gridSize)

EmptyExactlyWhenUnreachable ==
  search.pc # "idle" /\ search.start # search.goal =>
    (search.result = <<>>
       <=> search.goal \notin LegallyReachable({search.start}, search.barrierSet,
                                               search.gridSize))

\* The goal is a free cell of the 3x3 grid and so is the start; the search
\* has reached three cells or more, has emptied its open set and has
\* returned the empty path.
EmptyExactlyWhenUnreachableWitness ==
  /\ search.pc = "returned"
  /\ search.gridSize = 3
  /\ key(search.goal) \notin search.barrierSet
  /\ key(search.start) \notin search.barrierSet
  /\ search.st.openSet = <<>>
  /\ Cardinality(DOMAIN search.st.gScore) >= 3
  /\ search.result = <<>>

\* C28: a returned path is optimal under the costs 1.0 for a cardinal and
\* 1.414 for a diagonal move: its total cost is the minimum over all legal
\* routes from start to goal.
StepCost(a, b) ==
  IF a.x # b.x /\ a.y # b.y THEN DIAGONAL_COST ELSE CARDINAL_COST

RECURSIVE PathCost(_, _)
PathCost(path, i) ==
  IF i >= Len(path) THEN 0
  ELSE StepCost(path[i], path[i + 1]) + PathCost(path, i + 1)

\* The least of a non-empty set of numbers.
Least(S) == CHOOSE m \in S : \A n \in S : m <= n

\* The cost of the cheapest legal route from start to each cell (Infinity
\* where there is none): the fixpoint of one more legal move.
RECURSIVE CheapestRoutes(_, _, _, _)
CheapestRoutes(cost, cells, barrierSet, gridSize) ==
  LET next == [ b \in cells |->
                 Least({cost[b]} \cup
                       { cost[a] + StepCost(a, b) :
                           a \in { c \in cells :
                                     /\ cost[c] < Infinity
                                     /\ LegalMove(c, b, barrierSet, gridSize) } }) ]
  IN IF next = cost THEN cost
     ELSE CheapestRoutes(next, cells, barrierSet, gridSize)

CheapestRoute(start, goal, barrierSet, gridSize) ==
  LET cells == Grid(gridSize) \cup {start, goal}
  IN CheapestRoutes([ c \in cells |-> IF c = start THEN 0 ELSE Infinity ],
                    cells, barrierSet, gridSize)[goal]

ReturnedPathOptimal ==
  search.pc = "returned" /\ Len(search.result) > 0 =>
    PathCost(search.result, 1)
      = CheapestRoute(search.start, search.goal,
                      search.barrierSet, search.gridSize)

\* A returned path round barriers, with cardinal and diagonal steps, that
\* costs more than the straight line would.
ReturnedPathOptimalWitness ==
  /\ search.pc = "returned"
  /\ Len(search.result) >= 4
  /\ search.barrierSet # {}
  /\ \E i \in 1..(Len(search.result) - 1) :
       StepCost(search.result[i], search.result[i + 1]) = DIAGONAL_COST
  /\ \E i \in 1..(Len(search.result) - 1) :
       StepCost(search.result[i], search.result[i + 1]) = CARDINAL_COST
  /\ PathCost(search.result, 1) > DIAGONAL_COST * Cheb(search.start, search.goal)

\* C29: every turn of the loop takes from the open set a key with the lowest
\* f = g + h, and among the keys with that f the one that was inserted
\* first; the open set keeps its keys in the order of their insertion, and
\* the path of the search is the one and only result of the call.
FrontierPop ==
  search.pc = "searching" /\ Len(search.st.openSet) > 0

\* f = g + h for every key of the open set.
FrontierScores ==
  \A i \in 1..Len(search.st.openSet) :
    LET k == search.st.openSet[i] IN
      search.st.fScore[k]
        = search.st.gScore[k]
          + CARDINAL_COST * Cheb(Cell(k[1], k[2]), search.goal)

LowestEarliest(open, fScore, k) ==
  \E i \in 1..Len(open) :
    /\ open[i] = k
    /\ \A j \in 1..Len(open) : fScore[open[j]] >= fScore[k]
    /\ \A j \in 1..(i - 1) : fScore[open[j]] > fScore[k]

\* The keys that stay keep their order and the new ones come after them.
KeepsInsertionOrder(open, k, after) ==
  LET kept == SelectSeq(open, LAMBDA e : e # k) IN
    /\ Len(after) >= Len(kept)
    /\ SubSeq(after, 1, Len(kept)) = kept
    /\ \A i \in (Len(kept) + 1)..Len(after) :
         \A j \in 1..Len(open) : after[i] # open[j]

FrontierPopStep ==
  FrontierPop =>
    /\ LowestEarliest(search.st.openSet, search.st.fScore, search'.currentKey)
    /\ search'.pc = "searching" =>
         KeepsInsertionOrder(search.st.openSet, search'.currentKey,
                             search'.st.openSet)

SearchReturnsResult ==
  search.pc = "returned" => search.path = search.result

FrontierPopsLowestEarliest ==
  /\ [](FrontierScores /\ SearchReturnsResult)
  /\ [][FrontierPopStep]_vars

\* The last turn took a key while a key with the same f, reached from
\* another cell and so inserted before that turn, was in the open set: it
\* is still there.
FrontierPopsLowestEarliestWitness ==
  /\ search.pc = "searching"
  /\ search.currentKey # <<>>
  /\ \E i \in 1..Len(search.st.openSet) :
       LET m == search.st.openSet[i] IN
         /\ search.st.fScore[m] = search.st.fScore[search.currentKey]
         /\ search.st.cameFrom[m] # search.currentKey

\* C30: on the 5x5 grid without barriers findPath from (0,0) to (4,4)
\* returns a path of exactly 5 cells, and the directions of that path are
\* downRight four times.
OpenGridCalled ==
  /\ search.pc # "idle"
  /\ search.start = OpenGrid.start
  /\ search.goal = OpenGrid.goal
  /\ search.barrierSet = OpenGrid.barrierSet
  /\ search.gridSize = OpenGrid.gridSize

OpenGridDiagonal ==
  OpenGridCalled =>
    /\ Len(search.result) = 5
    /\ pathToDirections(search.result)
         = << "downRight", "downRight", "downRight", "downRight" >>

\* The search on the open grid has taken (4,4) from the open set and has
\* returned.
OpenGridDiagonalWitness ==
  /\ OpenGridCalled
  /\ search.pc = "returned"
  /\ search.currentKey = <<4, 4>>
  /\ search.path = search.result

\* C31: for a path of n >= 1 cells pathToDirections returns exactly n - 1
\* entries, and entry i is the name of the direction whose (dx, dy) is
\* (sign(x[i+1] - x[i]), sign(y[i+1] - y[i])) (none when both signs are 0:
\* no direction has that offset); for the empty path it returns the empty
\* list.
SignOffset(a, b) == [ dx |-> Sign(b.x - a.x), dy |-> Sign(b.y - a.y) ]

NamedBySign(a, b, name) ==
  LET d == SignOffset(a, b) IN
    IF d.dx = 0 /\ d.dy = 0 THEN name = "none"
    ELSE \E i \in 1..Len(NEIGHBOURS) :
           /\ NEIGHBOURS[i].dx = d.dx
           /\ NEIGHBOURS[i].dy = d.dy
           /\ NEIGHBOURS[i].name = name

DirectionsBySign ==
  directions.pc = "returned" =>
    /\ Len(directions.path) = 0 => directions.result = <<>>
    /\ Len(directions.path) >= 1 =>
         /\ Len(directions.result) = Len(directions.path) - 1
         /\ \A i \in 1..(Len(directions.path) - 1) :
              NamedBySign(directions.path[i], directions.path[i + 1],
                          directions.result[i])

\* A path of three cells that turns has been given its two directions.
DirectionsBySignWitness ==
  /\ directions.pc = "returned"
  /\ directions.path = << Cell(0, 0), Cell(1, 1), Cell(1, 0) >>
  /\ directions.result = << "downRight", "up" >>

\* C32: pathToDirections never fails, and maps a consecutive pair to none
\* whenever the delta of the pair is not one of the 8 unit offsets (a
\* repeated cell, or a jump of more than one cell on either axis).
NotUnitOffset(a, b) ==
  \/ a = b
  \/ Abs(b.x - a.x) > 1
  \/ Abs(b.y - a.y) > 1

OffPathPairsNone ==
  directions.pc = "returned" =>
    /\ Len(directions.result)
         = IF directions.path = <<>> THEN 0 ELSE Len(directions.path) - 1
    /\ \A i \in 1..(Len(directions.path) - 1) :
         NotUnitOffset(directions.path[i], directions.path[i + 1])
           => directions.result[i] = "none"

\* C33: the conversation history keeps at most the last 20 messages: in
\* every reachable state, after any interleaving of chat handlers, the
\* history holds no more than 20 entries.
HistoryWithinMax == Len(chat.history) <= MAX_HISTORY

\* C34: at any time at most one WanderTask loop is live (started, token not
\* cancelled, not returned), and it is the task whose controller is in the
\* wander slot; no flow overwrites the slot with a new task while the task
\* it replaces is still un-cancelled.
LiveWanderTasks == { i \in 1..Len(wander) : WanderRunning(wander[i]) }

\* The slot gets a new task and the task it held is live after the step.
SlotReplacedLive ==
  /\ wanderControllerRef' # wanderControllerRef
  /\ WanderRunning(wander'[wanderControllerRef])

OneLiveWanderInSlot ==
  /\ [](Cardinality(LiveWanderTasks) <= 1
         /\ LiveWanderTasks \subseteq {wanderControllerRef})
  /\ [][~SlotReplacedLive]_vars

\* C35: the single-flight flag mirrors the flows: in every reachable state
\* isBusy is true if a help-request or a proactive-approach flow is in
\* progress and false if none is; the end of one flow never clears the flag
\* while another flow is still in progress.
IsBusyMirrorsFlows == isBusy <=> ApproachInProgress

\* C36: once the token of a WanderTask has been cancelled, that task never
\* afterwards starts a path publish and never writes the position, at
\* whichever await it was when cancelled: its next step is its return.
CancelledWander(i) ==
  wander[i].aborted /\ wander[i].pc \notin {"free", "done"}

CancelledWanderStep(i) ==
  CancelledWander(i) /\ wander'[i] # wander[i] =>
    /\ wander'[i].pc \in {"free", "done"}
    /\ world' = world

CancelledWanderIsInert ==
  [][\A i \in 1..Len(wander) : CancelledWanderStep(i)]_vars

\* The token of a task is cancelled during its pause after a committed walk,
\* and the task has not resumed yet.
CancelledWanderIsInertWitness ==
  \E i \in 1..Len(wander) :
    /\ wander[i].aborted
    /\ wander[i].pc = "pausing"
    /\ world.position # DEFAULT_SPAWN

\* C37: whenever a map is present whose spawn point is a cell of its grid
\* that is not a barrier, the position is a cell of the grid of that map
\* that is not a barrier: in every reachable state, also when a map update
\* arrives while a walk computed on the previous map is in flight.
Walkable(c, map) ==
  c \in Grid(map.gridSize) /\ key(c) \notin buildBarrierSet(map.barriers)

PositionOnCurrentMap ==
  world.map # NoMap /\ Walkable(MapOf(world.map).spawnPoint, MapOf(world.map))
    => Walkable(world.position, MapOf(world.map))

\* C38: the position is set to the end of a walk only if the path of that
\* walk was published: a help-request flow and a proactive flow that commit
\* have published their path, and a wander task whose publish failed drops
\* its path and leaves the position as it was.
WalkCommitsPublished ==
  [][ /\ \A h \in 1..Len(help) :
           EndsWalk(help, help', h) => help[h].pathPublished
      /\ \A j \in 1..Len(pro) :
           EndsWalk(pro, pro', j) => pro[j].pathPublished
      /\ \A i \in WanderIndexes :
           WanderPublishFailed(i) =>
             wander'[i].path = <<>> /\ world'.position = world.position ]_vars

\* C39: proactiveOffered of a session becomes true only in the step in which
\* the nudge publish of a proactive flow for that player returns; a flow
\* that skips the approach for want of a map, is cancelled, or whose
\* generation fails leaves the flag false.
Offered(tp, id) ==
  \E k \in 1..Len(tp) : tp[k].playerId = id /\ tp[k].proactiveOffered

NudgePublishReturned(id) ==
  \E j \in 1..Len(pro) :
    /\ pro[j].pc = "pubNudge" /\ pro[j].player = id
    /\ pro'[j].pc # "pubNudge"

OfferedOnlyByNudge ==
  [][ \A id \in Players :
        ~Offered(trackedPlayers, id) /\ Offered(trackedPlayers', id)
          => NudgePublishReturned(id) ]_vars

\* C40: helpRequestActive of a session is true exactly while a help-request
\* flow started by the participant of that session is in progress: in every
\* reachable state, so that the flag is false again once the flow has ended.
HelpFlowInProgressFor(id) ==
  \E h \in 1..Len(help) : help[h].sender = id /\ HelpInProgress(help[h])

HelpRequestActiveMirrorsFlow ==
  \A k \in 1..Len(trackedPlayers) :
    trackedPlayers[k].helpRequestActive
      <=> HelpFlowInProgressFor(trackedPlayers[k].playerId)

====
